---- MODULE Spec2Model ----
(***************************************************************************)
(* Model of the web3d benchmarking framework:                              *)
(*   - metrics/Harness.js, warm-up version   (src/unnamed/part_006)        *)
(*   - scenarios/Scenario.js and main.js     (src/unnamed/part_005)        *)
(*   - automation/runner.js                  (src/automation/runner.js)    *)
(*                                                                         *)
(* The harness is a record h; every method of the class is an operator     *)
(* from the record before the call (and the value of performance.now())    *)
(* to the record after it.  The DOM text updates and the UI rolling        *)
(* average (uiAccumulator, uiFrameCount) write nothing any other code      *)
(* reads and are left out.  The two window globals the harness writes,     *)
(* and the count of 'benchmark-complete' events it dispatched, are fields  *)
(* of the same record, since they live in the same page.                   *)
(*                                                                         *)
(* Numbers: durations are integers (clock units, "ms").  A quotient is a   *)
(* pair <<numerator, denominator>>.                                        *)
(***************************************************************************)
EXTENDS Integers, Sequences, FiniteSets, TLC

VARIABLES
    h,      \* the BenchmarkHarness of the page, with the page's window
    now,    \* performance.now()
    stage,  \* SpecApi: position in the set-up sequence
    sc,     \* SpecPage: the Scenario and the position of loadScenario / run
    rn      \* SpecRunner: runBenchmark of automation/runner.js

vars == <<h, now, stage, sc, rn>>

(***************************************************************************)
(* Bounds of the model.                                                    *)
(***************************************************************************)
MaxTime == 4
MaxWarmup == 1
MaxTarget == 2
MaxFrames == 3
MaxGpu == 1
MaxPending == 1
\* the trials of a sweep that fail
MaxFailed == 3
\* the sample sequences the statistics are applied to: length and values
MaxLen == 3
MaxSample == 2
MaxStep == 2
MaxClock == 20

NsPerMs == 1000000

NoMark == -1
NoValue == "none"

(***************************************************************************)
(* Sequence helpers and the statistics of calculateStatistics.             *)
(***************************************************************************)
\* the four are written as functions applied to the value of their argument
Sum(s) ==
    LET sum[a \in Seq(Int)] == IF a = <<>> THEN 0 ELSE Head(a) + sum[Tail(a)]
    IN  sum[s]

SumSq(s) ==
    LET sum[a \in Seq(Int)] ==
            IF a = <<>> THEN 0 ELSE Head(a) * Head(a) + sum[Tail(a)]
    IN  sum[s]

Insert(x, s) ==
    LET ins[a \in Seq(Int)] ==
            IF a = <<>> THEN <<x>>
            ELSE IF x < Head(a) THEN <<x>> \o a
            ELSE <<Head(a)>> \o ins[Tail(a)]
    IN  ins[s]

SortAsc(s) ==
    LET sort[a \in Seq(Int)] ==
            IF a = <<>> THEN <<>> ELSE Insert(Head(a), sort[Tail(a)])
    IN  sort[s]

Abs(x) == IF x < 0 THEN -x ELSE x

\* Euclid's algorithm, on the values of a and b
GCD(a, b) ==
    LET gcd[x \in Nat, y \in Nat] == IF y = 0 THEN x ELSE gcd[y, x % y]
    IN  gcd[a, b]

\* the quotient n / d in lowest terms, d >= 0; n / 0 is <<1, 0>> (Infinity),
\* <<-1, 0>> (-Infinity) or <<0, 0>> (NaN); on the values of n and d
Q(n, d) ==
    LET lowest[x \in Int, y \in Int] ==
            LET g == GCD(Abs(x), Abs(y))
                sgn == IF y < 0 THEN -1 ELSE 1
            IN  IF g = 0 THEN <<0, 0>> ELSE <<sgn * (x \div g), sgn * (y \div g)>>
    IN  lowest[n, d]

\* mean = sum(arr) / arr.length, as a quotient
mean(arr) == Q(Sum(arr), Len(arr))

\* the sample-corrected variance: the divisor one less than the length
stdDev_sampleCorrected(arr) ==
    Q(Len(arr) * SumSq(arr) - Sum(arr) * Sum(arr), Len(arr) * (Len(arr) - 1))

\* variance(arr, mean(arr)) = sum((x - m)^2) / n = (n*sum(x^2) - sum(x)^2) / n^2;
\* stdDev is its square root, kept here as the quotient under the root
stdDev(arr) == Q(Len(arr) * SumSq(arr) - Sum(arr) * Sum(arr), Len(arr) * Len(arr))

\* p95 without the sort: the element of the array as recorded
p95_unsorted(arr) == arr[((Len(arr) * 95) \div 100) + 1]

\* sorted[Math.floor(sorted.length * 0.95)], zero-indexed in the code
p95(arr) == SortAsc(arr)[((Len(arr) * 95) \div 100) + 1]

Zero == <<0, 1>>

(***************************************************************************)
(* BenchmarkHarness: constructor and resetResults.                         *)
(***************************************************************************)
resetResults ==
    [frames |-> <<>>, cpuTimes |-> <<>>, gpuTimes |-> <<>>,
     totalTime |-> 0, fps |-> Zero, initTime |-> 0,
     meanFrameTime |-> Zero, stdFrameTime |-> Zero, p95FrameTime |-> 0,
     meanCpuTime |-> Zero, meanGpuTime |-> Zero]

\* The settings are public fields; targetDurationMs is targetDuration * 1000.
constructor(warmup, targetMs, mode, frames) ==
    [results |-> resetResults,
     warmupDuration |-> warmup,
     targetDurationMs |-> targetMs,
     durationMode |-> mode,
     targetFrames |-> frames,
     initialized |-> FALSE,
     isWarmingUp |-> TRUE,
     isComplete |-> FALSE,
     initStartTime |-> 0,
     startTime |-> 0,
     lastFrameTime |-> 0,
     activeFrameCount |-> 0,
     device |-> FALSE,
     gpuSupportTimestamp |-> FALSE,
     \* performance marks and the GPU query/buffer state
     cpuStartMark |-> NoMark,
     pending |-> 0,
     \* the page's window: the two globals and the dispatched events
     winResults |-> NoValue,
     winError |-> NoValue,
     dispatched |-> 0,
     \* history: number of calculateStatistics runs and the samples it read
     statRuns |-> 0,
     statInput |-> <<>>,
     \* history: the catch block of the last recording endFrame ran
     measureThrew |-> FALSE]

startInitTimer(s, t) == [s EXCEPT !.initStartTime = t]

endInitTimer(s, t) ==
    [s EXCEPT !.results.initTime = t - s.initStartTime,
              !.initialized = TRUE,
              !.startTime = t,
              !.lastFrameTime = t]

initWebGPUTimestamps(s, supported) ==
    [s EXCEPT !.device = TRUE, !.gpuSupportTimestamp = supported]

(***************************************************************************)
(* GPU timestamps.                                                         *)
(***************************************************************************)
\* the guard without its test of the support flag
GpuInactive_ignoresSupport(s) == s.isWarmingUp \/ s.isComplete

GpuInactive(s) == ~s.gpuSupportTimestamp \/ s.isWarmingUp \/ s.isComplete

\* both write into the caller's command encoder, here the sequence of the
\* commands recorded in it, and leave the harness as it is
beginGPUTimestamp(s, commandEncoder) ==
    IF GpuInactive(s) THEN commandEncoder
    ELSE Append(commandEncoder, "writeTimestamp 0")

\* endGPUTimestamp without the guard of its first line
endGPUTimestamp_unguarded(s, commandEncoder) ==
    commandEncoder \o <<"writeTimestamp 1", "resolveQuerySet", "copyBufferToBuffer">>

endGPUTimestamp(s, commandEncoder) ==
    IF GpuInactive(s) THEN commandEncoder
    ELSE commandEncoder \o <<"writeTimestamp 1", "resolveQuerySet", "copyBufferToBuffer">>

\* resolveGPUTimestamp up to its await: returns -1 at once, or calls mapAsync
resolveCall(s) ==
    IF GpuInactive(s) THEN s ELSE [s EXCEPT !.pending = @ + 1]

\* resolveGPUTimestamp with the durationMs >= 0 test dropped
resolveSettle_pushesNegative(s, start, end) ==
    [s EXCEPT !.pending = @ - 1,
              !.results.gpuTimes = Append(@, (end - start) \div NsPerMs)]

\* resolveGPUTimestamp after mapAsync settled: read, unmap, convert, push
resolveSettle(s, start, end) ==
    LET durationMs == (end - start) \div NsPerMs
    IN  [s EXCEPT !.pending = @ - 1,
                  !.results.gpuTimes =
                      IF durationMs >= 0 THEN Append(@, durationMs) ELSE @]

(***************************************************************************)
(* Per-frame API.                                                          *)
(***************************************************************************)
\* startFrame leaving the warm-up without setting lastFrameTime
startFrame_keepsLastFrameTime(s, t) ==
    IF s.isComplete THEN s
    ELSE IF s.isWarmingUp
    THEN IF (t - s.startTime) > s.warmupDuration
         THEN [s EXCEPT !.isWarmingUp = FALSE,
                        !.startTime = t,
                        !.activeFrameCount = 0,
                        !.cpuStartMark = t]
         ELSE s
    ELSE [s EXCEPT !.cpuStartMark = t]

\* startFrame measuring the warm-up from the previous frame's end
startFrame_warmupSinceLastFrame(s, t) ==
    IF s.isComplete THEN s
    ELSE IF s.isWarmingUp
    THEN IF (t - s.lastFrameTime) > s.warmupDuration
         THEN [s EXCEPT !.isWarmingUp = FALSE,
                        !.startTime = t,
                        !.lastFrameTime = t,
                        !.activeFrameCount = 0,
                        !.cpuStartMark = t]
         ELSE s
    ELSE [s EXCEPT !.cpuStartMark = t]

startFrame(s, t) ==
    IF s.isComplete THEN s
    ELSE IF s.isWarmingUp
    THEN IF (t - s.startTime) > s.warmupDuration
         THEN [s EXCEPT !.isWarmingUp = FALSE,
                        !.startTime = t,
                        !.lastFrameTime = t,
                        !.activeFrameCount = 0,
                        !.cpuStartMark = t]
         ELSE s   \* warmupFrameCount++ (only logged), return
    ELSE [s EXCEPT !.cpuStartMark = t]

calculateStatistics(s) ==
    LET r == s.results
        r1 == IF Len(r.frames) > 0
              THEN [r EXCEPT !.meanFrameTime = mean(r.frames),
                             !.stdFrameTime = stdDev(r.frames),
                             !.p95FrameTime = p95(r.frames),
                             \* 1000 / meanFrameTime
                             !.fps = Q(1000 * Len(r.frames), Sum(r.frames))]
              ELSE r
        r2 == IF Len(r.cpuTimes) > 0
              THEN [r1 EXCEPT !.meanCpuTime = mean(r.cpuTimes)]
              ELSE r1
        r3 == IF Len(r.gpuTimes) > 0
              THEN [r2 EXCEPT !.meanGpuTime = mean(r.gpuTimes)]
              ELSE r2
    IN  [s EXCEPT !.results = r3,
                  !.statRuns = @ + 1,
                  !.statInput = <<r.frames, r.cpuTimes, r.gpuTimes>>]

finalizeResults(s, t) ==
    LET s1 == calculateStatistics([s EXCEPT !.results.totalTime = t - s.startTime])
    IN  [s1 EXCEPT !.winResults = "results",
                   !.dispatched = @ + 1]

\* checkCompletion with the frame count compared strictly
checkCompletion_strictFrames(s, t) ==
    LET complete ==
            IF s.durationMode = "time"
            THEN (t - s.startTime) > s.targetDurationMs
            ELSE IF s.durationMode = "frames"
            THEN s.activeFrameCount > s.targetFrames
            ELSE FALSE
    IN  IF complete
        THEN finalizeResults([s EXCEPT !.isComplete = TRUE], t)
        ELSE s

checkCompletion(s, t) ==
    LET complete ==
            IF s.durationMode = "time"
            THEN (t - s.startTime) > s.targetDurationMs
            ELSE IF s.durationMode = "frames"
            THEN s.activeFrameCount >= s.targetFrames
            ELSE FALSE
    IN  IF complete
        THEN finalizeResults([s EXCEPT !.isComplete = TRUE], t)
        ELSE s

\* endFrame with the isWarmingUp test of its first line dropped
endFrame_noWarmupGuard(s, t) ==
    IF s.isComplete
    THEN [s EXCEPT !.lastFrameTime = t]
    ELSE LET cpuTime == IF s.cpuStartMark = NoMark THEN 0 ELSE t - s.cpuStartMark
             duration == t - s.lastFrameTime
         IN  checkCompletion(
                 [s EXCEPT !.cpuStartMark = NoMark,
                           !.measureThrew = (s.cpuStartMark = NoMark),
                           !.results.frames = Append(@, duration),
                           !.results.cpuTimes = Append(@, cpuTime),
                           !.lastFrameTime = t,
                           !.activeFrameCount = @ + 1], t)

\* endFrame with the isComplete test of its first line dropped
endFrame_noCompleteGuard(s, t) ==
    IF s.isWarmingUp
    THEN [s EXCEPT !.lastFrameTime = t]
    ELSE LET cpuTime == IF s.cpuStartMark = NoMark THEN 0 ELSE t - s.cpuStartMark
             duration == t - s.lastFrameTime
         IN  checkCompletion(
                 [s EXCEPT !.cpuStartMark = NoMark,
                           !.measureThrew = (s.cpuStartMark = NoMark),
                           !.results.frames = Append(@, duration),
                           !.results.cpuTimes = Append(@, cpuTime),
                           !.lastFrameTime = t,
                           !.activeFrameCount = @ + 1], t)

\* endFrame pushing a CPU time only when performance.measure succeeded
endFrame_skipsFailedMeasure(s, t) ==
    IF s.isComplete \/ s.isWarmingUp
    THEN [s EXCEPT !.lastFrameTime = t]
    ELSE LET duration == t - s.lastFrameTime
         IN  checkCompletion(
                 [s EXCEPT !.cpuStartMark = NoMark,
                           !.measureThrew = (s.cpuStartMark = NoMark),
                           !.results.frames = Append(@, duration),
                           !.results.cpuTimes =
                               IF s.cpuStartMark = NoMark THEN @
                               ELSE Append(@, t - s.cpuStartMark),
                           !.lastFrameTime = t,
                           !.activeFrameCount = @ + 1], t)

endFrame(s, t) ==
    IF s.isComplete \/ s.isWarmingUp
    THEN [s EXCEPT !.lastFrameTime = t]
    ELSE LET cpuTime == IF s.cpuStartMark = NoMark THEN 0 ELSE t - s.cpuStartMark
             duration == t - s.lastFrameTime
         IN  checkCompletion(
                 [s EXCEPT !.cpuStartMark = NoMark,
                           !.measureThrew = (s.cpuStartMark = NoMark),
                           !.results.frames = Append(@, duration),
                           !.results.cpuTimes = Append(@, cpuTime),
                           !.lastFrameTime = t,
                           !.activeFrameCount = @ + 1], t)

reportError(s, message) == [s EXCEPT !.winError = message]

(***************************************************************************)
(* Scenario (scenarios/Scenario.js) and loadScenario (main.js).            *)
(* sc.pc is where the page's code stands:                                  *)
(*   "load"    loadScenario before the scenario is constructed             *)
(*   "init"    awaiting scenario.init()                                    *)
(*   "render"  inside run(): startFrame was called, render() is running    *)
(*   "await"   render() returned its promise, which has not settled        *)
(*   "raf"     the then-callback ran endFrame and requestAnimationFrame    *)
(*   "stopped" a catch handler called reportError                          *)
(* sc.transitionIter tells whether the startFrame of the iteration under   *)
(* way made the Warmup -> Recording transition; sc.lastCall is the last of  *)
(* startFrame and endFrame that run() called, and sc.alternating whether   *)
(* every such call so far came after a call of the other one, startFrame   *)
(* first (history).                                                        *)
(***************************************************************************)
Scenario(api) ==
    [pc |-> "load", api |-> api, isRunning |-> FALSE, animationFrameId |-> FALSE,
     commandEncoder |-> <<>>, transitionIter |-> FALSE,
     lastCall |-> NoValue, alternating |-> TRUE,
     \* run() 37-38: the value the then-callback passed to endFrame
     gpuTimeMs |-> -1,
     \* history: performance.now() at the last endFrame call of run()
     endFrameAt |-> NoMark]

\* run() 32: this.harness.startFrame() is called
callStartFrame(c) ==
    [c EXCEPT !.lastCall = "startFrame",
              !.alternating = @ /\ c.lastCall \in {NoValue, "endFrame"}]

\* run() 38, 46: this.harness.endFrame() is called
callEndFrame(c) ==
    [c EXCEPT !.lastCall = "endFrame",
              !.alternating = @ /\ c.lastCall = "startFrame"]

\* requestAnimationFrame called beside render(), not in its then-callback
rafDue_beforeThen(c) == c.pc \in {"await", "raf"}

\* run() 39: the callback of requestAnimationFrame is due once the
\* then-callback of the render promise has requested it
rafDue(c) == c.pc = "raf"

\* stop(): isRunning = false, cancelAnimationFrame
stop(c) == [c EXCEPT !.isRunning = FALSE, !.animationFrameId = FALSE]

NoRunner == [pc |-> "none"]

(***************************************************************************)
(* SpecApi: one harness, its methods called in any order after             *)
(* endInitTimer (Scenario.start calls endInitTimer before the first        *)
(* run()), the clock advancing between calls.  stage is the position in    *)
(* the set-up sequence of loadScenario: "new", "timing" (startInitTimer    *)
(* was called), "running" (endInitTimer was called).                       *)
(***************************************************************************)
TsValues == {0, NsPerMs}
Messages == {"render failed"}

\* the settings a harness is run with: a mode and the target that mode reads
Settings ==
    {<<w, d, "time", MaxTarget>> : w \in 0..MaxWarmup, d \in 1..MaxTarget}
    \cup {<<w, MaxTarget, "frames", f>> : w \in 0..MaxWarmup, f \in 1..MaxTarget}

InitApi ==
    /\ \E c \in Settings : h = constructor(c[1], c[2], c[3], c[4])
    /\ now = 0
    /\ stage = "new"
    /\ sc = Scenario("none")
    /\ rn = NoRunner

\* the clock's origin is the startInitTimer call
Tick ==
    /\ stage # "new"
    /\ now < MaxTime
    /\ now' = now + 1
    /\ UNCHANGED <<h, stage, sc, rn>>

\* the caps that keep the state space finite
Room(s) ==
    /\ Len(s.results.frames) <= MaxFrames
    /\ Len(s.results.gpuTimes) <= MaxGpu
    /\ s.pending <= MaxPending

ApiStartInitTimer ==
    /\ stage = "new"
    /\ h' = startInitTimer(h, now)
    /\ stage' = "timing"
    /\ UNCHANGED <<now, sc, rn>>

ApiInitWebGPUTimestamps ==
    /\ stage = "timing"
    /\ ~h.device
    /\ \E supported \in BOOLEAN : h' = initWebGPUTimestamps(h, supported)
    /\ UNCHANGED <<now, stage, sc, rn>>

ApiEndInitTimer ==
    /\ stage = "timing"
    /\ h' = endInitTimer(h, now)
    /\ stage' = "running"
    /\ UNCHANGED <<now, sc, rn>>

ApiStartFrame ==
    /\ stage = "running"
    /\ h' = startFrame(h, now)
    /\ Room(h')
    /\ UNCHANGED <<now, stage, sc, rn>>

ApiEndFrame ==
    /\ stage = "running"
    /\ h' = endFrame(h, now)
    /\ Room(h')
    /\ UNCHANGED <<now, stage, sc, rn>>

\* called on an encoder of the caller's, which the harness does not keep
ApiBeginGPUTimestamp ==
    /\ stage = "running"
    /\ beginGPUTimestamp(h, <<>>) \in {<<>>, <<"writeTimestamp 0">>}
    /\ UNCHANGED <<h, now, stage, sc, rn>>

ApiEndGPUTimestamp ==
    /\ stage = "running"
    /\ Len(endGPUTimestamp(h, <<>>)) \in {0, 3}
    /\ UNCHANGED <<h, now, stage, sc, rn>>

ApiResolveCall ==
    /\ stage = "running"
    /\ h' = resolveCall(h)
    /\ Room(h')
    /\ UNCHANGED <<now, stage, sc, rn>>

ApiResolveSettle ==
    /\ h.pending > 0
    /\ \E start \in TsValues, end \in TsValues : h' = resolveSettle(h, start, end)
    /\ Room(h')
    /\ UNCHANGED <<now, stage, sc, rn>>

ApiReportError ==
    /\ h.winError = NoValue
    /\ \E m \in Messages : h' = reportError(h, m)
    /\ UNCHANGED <<now, stage, sc, rn>>

NextApi ==
    \/ Tick
    \/ ApiStartInitTimer
    \/ ApiInitWebGPUTimestamps
    \/ ApiEndInitTimer
    \/ ApiStartFrame
    \/ ApiEndFrame
    \/ ApiBeginGPUTimestamp
    \/ ApiEndGPUTimestamp
    \/ ApiResolveCall
    \/ ApiResolveSettle
    \/ ApiReportError

SpecApi == InitApi /\ [][NextApi]_vars

(***************************************************************************)
(* SpecPage: one trial page.  loadScenario constructs the scenario, times  *)
(* init(), and start() runs the frame loop of Scenario.run; a WebGPU       *)
(* scenario calls initWebGPUTimestamps in init() and the three timestamp   *)
(* methods in render(), whose promise is the one resolveGPUTimestamp       *)
(* returns.                                                                *)
(***************************************************************************)
Apis == {"webgl", "webgpu"}

InitPage ==
    /\ \E c \in Settings : h = constructor(c[1], c[2], c[3], c[4])
    /\ now = 0
    /\ stage = "page"
    /\ \E a \in Apis : sc = Scenario(a)
    /\ rn = NoRunner

PageTick ==
    /\ sc.pc # "load"
    /\ now < MaxTime
    /\ now' = now + 1
    /\ UNCHANGED <<h, stage, sc, rn>>

\* main.js 73-90: import, new module.default(canvas, harness), startInitTimer
LoadScenario ==
    /\ sc.pc = "load"
    /\ h' = startInitTimer(h, now)
    /\ sc' = [sc EXCEPT !.pc = "init"]
    /\ UNCHANGED <<now, stage, rn>>

\* main.js 104-107: the import or the constructor threw
LoadScenarioFails ==
    /\ sc.pc = "load"
    /\ \E m \in Messages : h' = reportError(h, m)
    /\ sc' = [sc EXCEPT !.pc = "stopped"]
    /\ UNCHANGED <<now, stage, rn>>

\* scenario.start() called without awaiting init(): the loop starts although
\* init() rejects and the catch reports the error
InitFails_startsLoop ==
    /\ sc.pc = "init"
    /\ \E m \in Messages :
          LET h1 == endInitTimer(reportError(h, m), now)
          IN  /\ h' = startFrame(h1, now)
              /\ sc' = [callStartFrame(sc) EXCEPT
                           !.isRunning = TRUE,
                           !.pc = "render",
                           !.transitionIter = ~startFrame(h1, now).isWarmingUp]
    /\ UNCHANGED <<now, stage, rn>>

\* main.js 91, 104-107: scenario.init() rejected
InitFails ==
    /\ sc.pc = "init"
    /\ \E m \in Messages : h' = reportError(h, m)
    /\ sc' = [sc EXCEPT !.pc = "stopped"]
    /\ UNCHANGED <<now, stage, rn>>

\* the part of run() up to render(): startFrame
runStartFrame(s, c, t) ==
    [callStartFrame(c) EXCEPT
              !.pc = "render",
              !.commandEncoder = <<>>,
              !.transitionIter = s.isWarmingUp /\ ~startFrame(s, t).isWarmingUp]

\* main.js 91-93 and Scenario.start: init() resolved (a WebGPU scenario has
\* called initWebGPUTimestamps), start() sets isRunning, calls endInitTimer
\* and run(), which calls startFrame and enters render()
InitDone ==
    /\ sc.pc = "init"
    /\ \E supported \in BOOLEAN :
          LET h1 == IF sc.api = "webgpu" THEN initWebGPUTimestamps(h, supported) ELSE h
              h2 == endInitTimer(h1, now)
          IN  /\ h' = startFrame(h2, now)
              /\ sc' = runStartFrame(h2, [sc EXCEPT !.isRunning = TRUE], now)
    /\ UNCHANGED <<now, stage, rn>>

\* the requestAnimationFrame callback: run() again
RunFrame ==
    /\ rafDue(sc)
    /\ sc.isRunning
    /\ h' = startFrame(h, now)
    /\ sc' = runStartFrame(h, [sc EXCEPT !.animationFrameId = FALSE], now)
    /\ UNCHANGED <<now, stage, rn>>

\* render() to its return: a WebGPU scenario records its commands between
\* beginGPUTimestamp and endGPUTimestamp, submits, and returns the promise of
\* resolveGPUTimestamp; a WebGL scenario draws and returns nothing
Render ==
    /\ sc.pc = "render"
    /\ IF sc.api = "webgpu"
       THEN /\ h' = resolveCall(h)
            /\ sc' = [sc EXCEPT !.pc = "await",
                                !.commandEncoder =
                                    endGPUTimestamp(h, Append(beginGPUTimestamp(h, <<>>), "pass"))]
       ELSE /\ h' = h
            /\ sc' = [sc EXCEPT !.pc = "await"]
    /\ UNCHANGED <<now, stage, rn>>

\* render() calling resolveGPUTimestamp without returning its promise
renderSettled_notReturned(s, start, end) == s

\* the harness when the promise of render() resolves: render() returns the
\* promise of resolveGPUTimestamp, so a pending one has read and unmapped
renderSettled(s, start, end) ==
    IF s.pending > 0 THEN resolveSettle(s, start, end) ELSE s

\* run() 37-38: the value the promise of render() resolves with, undefined
\* (WebGL) passed on as -1; resolveGPUTimestamp returns -1 when it is inactive
\* at the call and durationMs otherwise
gpuTimeMs(s, start, end) ==
    IF s.pending > 0 THEN (end - start) \div NsPerMs ELSE -1

\* Scenario.run 37-39: the promise of render() resolved (for a pending
\* resolveGPUTimestamp: mapAsync settled and the rest of it ran); the
\* then-callback calls endFrame and requestAnimationFrame
RenderResolved ==
    /\ sc.pc = "await"
    /\ \E start \in TsValues, end \in TsValues :
          /\ h' = endFrame(renderSettled(h, start, end), now)
          /\ sc' = [callEndFrame(sc) EXCEPT !.pc = "raf",
                                            !.animationFrameId = TRUE,
                                            !.gpuTimeMs = gpuTimeMs(h, start, end),
                                            !.endFrameAt = now]
    /\ Room(h')
    /\ UNCHANGED <<now, stage, rn>>

\* Scenario.run 40-43: render() threw, or its promise rejected
RenderRejected ==
    /\ sc.pc \in {"render", "await"}
    /\ \E m \in Messages : h' = reportError(h, m)
    /\ sc' = stop([sc EXCEPT !.pc = "stopped"])
    /\ UNCHANGED <<now, stage, rn>>

NextPage ==
    \/ PageTick
    \/ LoadScenario
    \/ LoadScenarioFails
    \/ InitFails
    \/ InitDone
    \/ RunFrame
    \/ Render
    \/ RenderResolved
    \/ RenderRejected

SpecPage == InitPage /\ [][NextPage]_vars

(***************************************************************************)
(* SpecLoop: the page with the clock read where the code reads it.  The    *)
(* set-up takes 0 or 1 clock units, render() settles 0 or 1 units after    *)
(* startFrame, and the next animation frame comes 1 to MaxStep units       *)
(* later, so the clock strictly advances from one iteration to the next.   *)
(* The clock is followed up to MaxClock and no longer advanced once the    *)
(* harness is Complete.  A GPU pass, where it is timed, takes one           *)
(* millisecond.  The browser runs the callbacks that are due.              *)
(***************************************************************************)
InitLoop ==
    /\ \E c \in Settings : h = constructor(c[1], c[2], c[3], c[4])
    /\ now = 0
    /\ stage = "loop"
    /\ \E a \in Apis : sc = Scenario(a)
    /\ rn = NoRunner

\* run() 32-34 for a harness s read at clock t: startFrame, then render() up
\* to its return (a WebGPU scenario has called resolveGPUTimestamp)
runToRender(s, c, t) ==
    IF c.api = "webgpu" THEN resolveCall(startFrame(s, t)) ELSE startFrame(s, t)

\* main.js 73-93 and Scenario.start: the scenario is loaded, init() resolves,
\* start() calls endInitTimer and run()
LoopStart ==
    /\ sc.pc = "load"
    /\ \E d \in 0..1, supported \in BOOLEAN :
          LET t == now + d
              h0 == startInitTimer(h, now)
              h1 == IF sc.api = "webgpu" THEN initWebGPUTimestamps(h0, supported) ELSE h0
              h2 == endInitTimer(h1, t)
          IN  /\ h' = runToRender(h2, sc, t)
              /\ sc' = [runStartFrame(h2, [sc EXCEPT !.isRunning = TRUE], t)
                           EXCEPT !.pc = "await"]
              /\ now' = t
    /\ UNCHANGED <<stage, rn>>

\* the requestAnimationFrame callback: run() to the return of render()
LoopFrame ==
    /\ rafDue(sc)
    /\ sc.isRunning
    /\ \E d \in 1..MaxStep :
          LET t == IF h.isComplete THEN now ELSE now + d
          IN  /\ t <= MaxClock
              /\ h' = runToRender(h, sc, t)
              /\ sc' = [runStartFrame(h, [sc EXCEPT !.animationFrameId = FALSE], t)
                           EXCEPT !.pc = "await"]
              /\ now' = t
    /\ UNCHANGED <<stage, rn>>

\* Scenario.run 37-39, 45-47: render() has settled; endFrame and
\* requestAnimationFrame
LoopRendered ==
    /\ sc.pc = "await"
    /\ \E e \in 0..1, start \in {0}, end \in {NsPerMs} :
          LET t == IF h.isComplete THEN now ELSE now + e
          IN  /\ t <= MaxClock
              /\ h' = endFrame(renderSettled(h, start, end), t)
              /\ sc' = [callEndFrame(sc) EXCEPT !.pc = "raf",
                                                !.animationFrameId = TRUE,
                                                !.gpuTimeMs = gpuTimeMs(h, start, end),
                                                !.endFrameAt = t]
              /\ now' = t
    /\ UNCHANGED <<stage, rn>>

\* main.js 104-107, Scenario.run 40-43: loading, init() or render() raised
LoopRaises ==
    /\ sc.pc \in {"load", "await"}
    /\ \E m \in Messages : h' = reportError(h, m)
    /\ sc' = stop([sc EXCEPT !.pc = "stopped"])
    /\ UNCHANGED <<now, stage, rn>>

NextLoop ==
    \/ LoopStart
    \/ LoopFrame
    \/ LoopRendered
    \/ LoopRaises

SpecLoop ==
    /\ InitLoop
    /\ [][NextLoop]_vars
    /\ WF_vars(LoopStart)
    /\ WF_vars(LoopFrame)
    /\ WF_vars(LoopRendered)

(***************************************************************************)
(* automation/runner.js.                                                   *)
(***************************************************************************)
NUM_RUNS == 2

\* a part of the matrix of runner.js 17-24
apis == <<"webgl", "webgpu">>
testMatrix ==
    << [scenario |-> "A", counts |-> <<1>>],
       [scenario |-> "B", counts |-> <<100, 500>>] >>

TimeoutReason == "Timeout (120s)"

\* quotients: a + b, a - b, a * b, a / n
QAdd(a, b) == Q(a[1] * b[2] + b[1] * a[2], a[2] * b[2])
QSub(a, b) == Q(a[1] * b[2] - b[1] * a[2], a[2] * b[2])
QMul(a, b) == Q(a[1] * b[1], a[2] * b[2])
QDiv(a, n) == Q(a[1], a[2] * n)

\* the reduce of getMean, on the value of arr
QSum(arr) ==
    LET sum[a \in Seq(Int \X Int)] ==
            IF a = <<>> THEN Zero ELSE QAdd(Head(a), sum[Tail(a)])
    IN  sum[arr]

\* the reduce of getStdDev, on the values of arr and m
QSumSqDev(arr, m) ==
    LET sum[a \in Seq(Int \X Int), mn \in Int \X Int] ==
            IF a = <<>> THEN Zero
            ELSE QAdd(QMul(QSub(Head(a), mn), QSub(Head(a), mn)), sum[Tail(a), mn])
    IN  sum[arr, m]

\* getMean = arr.reduce((a, b) => a + b, 0) / arr.length
getMean(arr) == QDiv(QSum(arr), Len(arr))

\* getStdDev = Math.sqrt(sum((n - mean)^2) / arr.length): the quotient under the root
\* the sample-corrected deviation: the divisor one less than the length
getStdDev_sampleCorrected(arr, m) == QDiv(QSumSqDev(arr, m), Len(arr) - 1)

getStdDev(arr, m) == QDiv(QSumSqDev(arr, m), Len(arr))

\* runner.js 29-32: a sorted copy, the element at Math.floor(length * 0.95)
getP95(arr) == SortAsc(arr)[((Len(arr) * 95) \div 100) + 1]

Map(arr, field) == [i \in 1..Len(arr) |-> arr[i][field]]

\* the promise of page.evaluate: settled once, by the first resolve or reject
NoPromise == [state |-> "none", value |-> NoValue]
resolve(p, v) == IF p.state = "pending" THEN [state |-> "resolved", value |-> v] ELSE p
reject(p, r) == IF p.state = "pending" THEN [state |-> "rejected", value |-> r] ELSE p

\* what the page looked like when the promise settled (history)
Seen(s) == [error |-> s.winError, complete |-> s.isComplete,
            samples |-> Len(s.results.frames)]

settle(r, s, p) ==
    IF r.promise.state = "pending" /\ p.state # "pending"
    THEN [r EXCEPT !.promise = p, !.settledAt = Seen(s),
                   !.resolved = IF p.state = "resolved" THEN @ + 1 ELSE @]
    ELSE r

\* the executor without the check of window.__BENCHMARK_RESULTS__
executor_noFinishedCheck(r, s) ==
    LET r1 == [r EXCEPT !.promise = [state |-> "pending", value |-> NoValue],
                        !.timer = "armed",
                        !.listener = TRUE]
    IN  IF s.winError # NoValue
        THEN settle([r1 EXCEPT !.timer = "cleared"], s, reject(r1.promise, s.winError))
        ELSE r1

\* runner.js 79-96: the executor of the promise, run in the page s
executor(r, s) ==
    LET r1 == [r EXCEPT !.promise = [state |-> "pending", value |-> NoValue],
                        !.timer = "armed",
                        !.listener = TRUE]
        r2 == IF s.winError # NoValue
              THEN settle([r1 EXCEPT !.timer = "cleared"], s, reject(r1.promise, s.winError))
              ELSE r1
        r3 == IF s.winResults # NoValue
              THEN settle([r2 EXCEPT !.timer = "cleared"], s, resolve(r2.promise, s.results))
              ELSE r2
    IN  r3

\* runner.js 82-85: the 'benchmark-complete' listener, called by dispatchEvent
onBenchmarkComplete(r, s) ==
    settle([r EXCEPT !.timer = "cleared"], s, resolve(r.promise, s.results))

\* the timer handing over what the page has so far instead of rejecting
onTimeout_resolvesPartial(r, s) ==
    settle([r EXCEPT !.timer = "fired"], s, resolve(r.promise, s.results))

\* runner.js 80: the setTimeout callback
onTimeout(r, s) ==
    settle([r EXCEPT !.timer = "fired"], s, reject(r.promise, TimeoutReason))

\* runner.js 100-108
runEntry(result) ==
    [fps |-> result.fps,
     meanFrameTime |-> result.meanFrameTime,
     stdFrameTime |-> result.stdFrameTime,
     p95FrameTime |-> result.p95FrameTime,
     meanCpuTime |-> result.meanCpuTime,
     meanGpuTime |-> result.meanGpuTime,   \* || 0: an absent value reads 0
     initTime |-> result.initTime]

\* page.evaluate called without await: the loop goes on once the call is made
awaited_callOnly(r) == r.promise.state # "none"

\* runner.js 78: await page.evaluate(...) returns once the promise has settled
awaited(r) == r.promise.state \in {"resolved", "rejected"}

\* the catch pushing an entry of its own, as the single-trial runner does
awaitDone_catchPushes(r) ==
    IF r.promise.state = "resolved"
    THEN [r EXCEPT !.currentTestRuns = Append(@, runEntry(r.promise.value)),
                   !.lastKind = "pushed"]
    ELSE [r EXCEPT !.currentTestRuns = Append(@, runEntry(resetResults)),
                   !.failCount = @ + 1, !.failed = @ + 1,
                   !.timeouts = IF r.timer = "fired" THEN @ + 1 ELSE @,
                   !.lastReason = r.promise.value,
                   !.lastKind = "failed"]

\* runner.js 99-112: the code after the await, and the catch
awaitDone(r) ==
    IF r.promise.state = "resolved"
    THEN [r EXCEPT !.currentTestRuns = Append(@, runEntry(r.promise.value)),
                   !.lastKind = "pushed"]
    ELSE [r EXCEPT !.failCount = @ + 1, !.failed = @ + 1,
                   !.timeouts = IF r.timer = "fired" THEN @ + 1 ELSE @,
                   !.lastReason = r.promise.value,
                   !.lastKind = "failed"]

\* the aggregate without its else branch: a point with no run gets a plain entry
aggregate_noMarker(api, test, count, currentTestRuns) ==
    [api |-> api, scenario |-> test.scenario, count |-> count,
     runsSuccessful |-> Len(currentTestRuns)]

\* the failure entry chosen whenever some trial failed
aggregate_marksPartial(api, test, count, currentTestRuns) ==
    IF Len(currentTestRuns) = NUM_RUNS
    THEN aggregate_noMarker(api, test, count, currentTestRuns)
    ELSE [api |-> api, scenario |-> test.scenario, count |-> count,
          error |-> "All runs failed"]

\* the aggregate computed without the currentTestRuns.length > 0 test
aggregate_unguarded(api, test, count, currentTestRuns) ==
    [api |-> api, scenario |-> test.scenario, count |-> count,
     runsSuccessful |-> Len(currentTestRuns),
     meanFps |-> getMean(Map(currentTestRuns, "fps")),
     stdFps |-> getStdDev(Map(currentTestRuns, "fps"),
                          getMean(Map(currentTestRuns, "fps"))),
     meanFrameTime |-> getMean(Map(currentTestRuns, "meanFrameTime")),
     stdFrameTime |-> getStdDev(Map(currentTestRuns, "meanFrameTime"),
                                getMean(Map(currentTestRuns, "meanFrameTime"))),
     meanP95FrameTime |-> getMean([i \in 1..Len(currentTestRuns) |->
                                     <<currentTestRuns[i].p95FrameTime, 1>>]),
     meanCpuTime |-> getMean(Map(currentTestRuns, "meanCpuTime")),
     meanGpuTime |-> getMean(Map(currentTestRuns, "meanGpuTime")),
     meanInitTime |-> getMean([i \in 1..Len(currentTestRuns) |->
                                 <<currentTestRuns[i].initTime, 1>>])]

\* runner.js 115-140
aggregate(api, test, count, currentTestRuns) ==
    IF Len(currentTestRuns) > 0
    THEN [api |-> api, scenario |-> test.scenario, count |-> count,
          runsSuccessful |-> Len(currentTestRuns),
          meanFps |-> getMean(Map(currentTestRuns, "fps")),
          stdFps |-> getStdDev(Map(currentTestRuns, "fps"),
                               getMean(Map(currentTestRuns, "fps"))),
          meanFrameTime |-> getMean(Map(currentTestRuns, "meanFrameTime")),
          stdFrameTime |-> getStdDev(Map(currentTestRuns, "meanFrameTime"),
                                     getMean(Map(currentTestRuns, "meanFrameTime"))),
          meanP95FrameTime |-> getMean([i \in 1..Len(currentTestRuns) |->
                                          <<currentTestRuns[i].p95FrameTime, 1>>]),
          meanCpuTime |-> getMean(Map(currentTestRuns, "meanCpuTime")),
          meanGpuTime |-> getMean(Map(currentTestRuns, "meanGpuTime")),
          meanInitTime |-> getMean([i \in 1..Len(currentTestRuns) |->
                                      <<currentTestRuns[i].initTime, 1>>])]
    ELSE [api |-> api, scenario |-> test.scenario, count |-> count,
          error |-> "All runs failed"]

\* runner.js 157: the header line, cell by cell
csvHeader ==
    <<"API", "Scenario", "Count", "MeanFPS", "StdFPS", "MeanFrameTime_ms",
      "StdFrameTime_ms", "P95FrameTime_ms", "MeanCpuTime_ms", "MeanGpuTime_ms",
      "MeanInitTime_ms", "Error">>

\* runner.js 160, 162: the field of the entry each column's cell is read from
csvFields ==
    <<"api", "scenario", "count", "meanFps", "stdFps", "meanFrameTime",
      "stdFrameTime", "meanP95FrameTime", "meanCpuTime", "meanGpuTime",
      "meanInitTime", "error">>

Digits2(k) == IF k < 10 THEN "0" \o ToString(k) ELSE ToString(k)

\* the decimal text of c hundredths
Hundredths(neg, c) ==
    (IF neg THEN "-" ELSE "") \o ToString(c \div 100) \o "." \o Digits2(c % 100)

NonFinite(q) ==
    IF q[1] = 0 THEN "NaN" ELSE IF q[1] > 0 THEN "Infinity" ELSE "-Infinity"

\* Number.prototype.toFixed(2): the nearest hundredth, halves away from zero
toFixed(q) ==
    IF q[2] = 0 THEN NonFinite(q)
    ELSE Hundredths(q[1] < 0, (200 * Abs(q[1]) + q[2]) \div (2 * q[2]))

\* Math.sqrt(q).toFixed(2), for the standard deviations kept under the root
toFixedSqrt(q) ==
    IF q[2] = 0 THEN NonFinite(q)
    ELSE IF q[1] < 0 THEN "NaN"
    ELSE Hundredths(FALSE,
             CHOOSE k \in 0..(100 * ((q[1] \div q[2]) + 1)) :
                 /\ (2 * k - 1) * (2 * k - 1) * q[2] <= 40000 * q[1] \/ k = 0
                 /\ 40000 * q[1] < (2 * k + 1) * (2 * k + 1) * q[2])

\* one cell of the line of entry r: `${r.api}`, `${r.meanFps.toFixed(2)}`, ...
csvCell(r, f) ==
    IF f \in {"api", "scenario"} THEN r[f]
    ELSE IF f = "count" THEN ToString(r.count)
    ELSE IF "error" \in DOMAIN r THEN (IF f = "error" THEN r.error ELSE "")
    ELSE IF f = "error" THEN ""
    ELSE IF f \in {"stdFps", "stdFrameTime"} THEN toFixedSqrt(r[f])
    ELSE toFixed(r[f])

\* runner.js 157-164: the header and one line per entry of finalResults.data
csvLines(data) ==
    <<csvHeader>> \o
    [i \in 1..Len(data) |-> [c \in 1..Len(csvFields) |-> csvCell(data[i], csvFields[c])]]

\* runBenchmark at its first page.goto
Runner ==
    [pc |-> "goto",
     api |-> 1, test |-> 1, count |-> 1, run |-> 1,
     currentTestRuns |-> <<>>,
     data |-> <<>>,
     promise |-> NoPromise, timer |-> "none", listener |-> FALSE,
     \* history: the 'Failed Run' lines of this configuration point, how many
     \* of them were timeouts, the outcome of the trial just ended, the page as the
     \* promise saw it, the last point all of whose trials timed out, the gotos
     failCount |-> 0, timeouts |-> 0,
     lastKind |-> NoValue, lastReason |-> NoValue,
     settledAt |-> NoValue,
     timedOutPoint |-> 0,
     \* history: the promises of this point that resolved, and of each point passed
     resolved |-> 0, delivered |-> <<>>,
     \* history: the trials of the sweep logged as failed so far
     failed |-> 0,
     trials |-> 0,
     \* results.csv, line by line and cell by cell; empty until it is written
     csv |-> <<>>]

\* the loops nested the other way round: scenarios outermost, then apis
nextPoint_scenarioOutermost(r) ==
    IF r.count < Len(testMatrix[r.test].counts)
    THEN [r EXCEPT !.count = @ + 1]
    ELSE IF r.api < Len(apis)
    THEN [r EXCEPT !.count = 1, !.api = @ + 1]
    ELSE IF r.test < Len(testMatrix)
    THEN [r EXCEPT !.count = 1, !.api = 1, !.test = @ + 1]
    ELSE [r EXCEPT !.pc = "close"]

\* the for loops of runner.js 66-68, 141-143: the next configuration point
nextPoint(r) ==
    IF r.count < Len(testMatrix[r.test].counts)
    THEN [r EXCEPT !.count = @ + 1]
    ELSE IF r.test < Len(testMatrix)
    THEN [r EXCEPT !.count = 1, !.test = @ + 1]
    ELSE IF r.api < Len(apis)
    THEN [r EXCEPT !.count = 1, !.test = 1, !.api = @ + 1]
    ELSE [r EXCEPT !.pc = "close"]

(***************************************************************************)
(* SpecRunner: the sweep.  The page of a trial is the harness h of a fresh *)
(* page with the scenario sc; its frame loop is taken one whole iteration  *)
(* at a time, one clock unit per frame, with no GPU timestamps.  The page  *)
(* raises errors and the timer fires only while fewer than MaxFailed       *)
(* trials of the sweep have failed.                                        *)
(***************************************************************************)
PageHarness == constructor(0, MaxTarget, "frames", MaxTarget)

\* a navigation that keeps the document, and with it the window and harness
navigate_keepsDocument(s) == s

\* runner.js 74-75, main.js 70: page.goto loads the document anew, whose
\* main.js constructs a harness; nothing of the page before, s, is kept
navigate(s) == PageHarness

InitRunner ==
    /\ h = PageHarness
    /\ now = 0
    /\ stage = "runner"
    /\ sc = Scenario("none")
    /\ rn = Runner

\* runner.js 74-75: page.goto loaded a fresh page (main.js 70: a new harness)
Goto ==
    /\ rn.pc = "goto"
    /\ rn' = [rn EXCEPT !.pc = "evaluate", !.trials = @ + 1,
                        !.promise = NoPromise, !.timer = "none", !.listener = FALSE,
                        !.settledAt = NoValue,
                        !.lastKind = NoValue, !.lastReason = NoValue]
    /\ h' = navigate(h)
    /\ sc' = Scenario(apis[rn.api])
    /\ now' = 0
    /\ UNCHANGED stage

\* runner.js 75, 170-173: page.goto rejected; nothing catches it in the loop
GotoFails ==
    /\ rn.pc = "goto"
    /\ rn' = [rn EXCEPT !.pc = "crashed", !.trials = @ + 1]
    /\ UNCHANGED <<h, now, stage, sc>>

\* runner.js 78-96: page.evaluate runs the executor in the page
Evaluate ==
    /\ rn.pc = "evaluate"
    /\ rn' = [executor(rn, h) EXCEPT !.pc = "await"]
    /\ UNCHANGED <<h, now, stage, sc>>

\* runner.js 80: the timer fires
TimeoutFires ==
    /\ rn.pc = "await"
    /\ rn.timer = "armed"
    /\ rn.failed < MaxFailed
    /\ rn' = onTimeout(rn, h)
    /\ UNCHANGED <<h, now, stage, sc>>

\* runner.js 97-113: the await returns or throws; next run
AwaitDone ==
    /\ rn.pc = "await"
    /\ awaited(rn)
    /\ LET r == awaitDone(rn)
       IN  rn' = IF r.run < NUM_RUNS
                 THEN [r EXCEPT !.run = @ + 1, !.pc = "goto"]
                 ELSE [r EXCEPT !.pc = "aggregate"]
    /\ UNCHANGED <<h, now, stage, sc>>

\* runner.js 115-143: aggregate, next configuration point
Aggregate ==
    /\ rn.pc = "aggregate"
    /\ LET test == testMatrix[rn.test]
           r == [rn EXCEPT !.data = Append(@, aggregate(apis[rn.api], test,
                                                        test.counts[rn.count],
                                                        rn.currentTestRuns)),
                           !.timedOutPoint = IF rn.timeouts = NUM_RUNS
                                             THEN Len(rn.data) + 1 ELSE @,
                           !.currentTestRuns = <<>>,
                           !.delivered = Append(@, rn.resolved),
                           !.resolved = 0,
                           !.failCount = 0, !.timeouts = 0,
                           !.run = 1, !.pc = "goto"]
       IN  rn' = nextPoint(r)
    /\ UNCHANGED <<h, now, stage, sc>>

\* runner.js 145-167: close the browser, save the report
Close ==
    /\ rn.pc = "close"
    /\ rn' = [rn EXCEPT !.pc = "done", !.csv = csvLines(rn.data)]
    /\ UNCHANGED <<h, now, stage, sc>>

PageAlive == rn.pc \in {"evaluate", "await"}

\* main.js 72-93 and Scenario.start: the scenario is loaded and started
PgStart ==
    /\ PageAlive
    /\ sc.pc = "load"
    /\ h' = endInitTimer(startInitTimer(h, now), now)
    /\ sc' = [sc EXCEPT !.pc = "raf", !.isRunning = TRUE]
    /\ UNCHANGED <<now, stage, rn>>

\* Scenario.run: one iteration, startFrame to endFrame, a clock unit later;
\* dispatchEvent in finalizeResults calls the runner's listener, if attached
PgFrame ==
    /\ PageAlive
    /\ sc.pc = "raf"
    /\ sc.isRunning
    /\ ~h.isComplete
    /\ LET t == now + 1
           h1 == endFrame(startFrame(h, t), t)
       IN  /\ h' = h1
           /\ now' = t
           /\ rn' = IF h1.dispatched > h.dispatched /\ rn.listener
                    THEN onBenchmarkComplete(rn, h1)
                    ELSE rn
    /\ sc' = callEndFrame(callStartFrame(sc))
    /\ UNCHANGED stage

\* main.js 104-107, Scenario.run 40-43: loading, init() or render() failed
PgError ==
    /\ PageAlive
    /\ sc.pc \in {"load", "raf"}
    /\ rn.failed < MaxFailed
    /\ \E m \in Messages : h' = reportError(h, m)
    /\ sc' = stop([sc EXCEPT !.pc = "stopped"])
    /\ UNCHANGED <<now, stage, rn>>

NextRunner ==
    \/ Goto
    \/ GotoFails
    \/ Evaluate
    \/ TimeoutFires
    \/ AwaitDone
    \/ Aggregate
    \/ Close
    \/ PgStart
    \/ PgFrame
    \/ PgError

SpecRunner == InitRunner /\ [][NextRunner]_vars

\* The steps the event loops of Node and of the browser owe: an awaited
\* page.goto settles, resolved or rejected (runner.js 75; its navigation
\* timeout), page.evaluate runs and its await returns once the promise is
\* settled, an armed setTimeout fires (runner.js 80), the synchronous code
\* after a loop runs, and the page's load and requestAnimationFrame callbacks
\* run while the page is open.  That the page raises an error is never owed.
SpecRunnerFair ==
    /\ SpecRunner
    /\ WF_vars(\/ Goto
               \/ GotoFails
               \/ Evaluate
               \/ TimeoutFires
               \/ AwaitDone
               \/ Aggregate
               \/ Close
               \/ PgStart
               \/ PgFrame)

(***************************************************************************)
(* SpecStats: the statistics on their own.  Either the harness holds a     *)
(* sequence of frame samples and calculateStatistics (and the runner's     *)
(* getP95) is applied to it, or the runner goes through the trials of one  *)
(* configuration point, each delivering the next fps value or failing,     *)
(* and aggregates.  The sequences are all those of bounded length over     *)
(* bounded values, and the sequences the specification works through.      *)
(***************************************************************************)
\* non-empty: a harness finalizes after a push, a point has a trial
Samples == UNION {[1..k -> 0..MaxSample] : k \in 1..MaxLen}

FrameSamples ==
    Samples \cup {[i \in 1..20 |-> i], [i \in 1..40 |-> 41 - i],
                  <<5, 5, 5, 5>>, <<1, 2, 3, 4>>}

FpsSamples ==
    Samples \cup {<<58, 59, 60, 61, 60, 59, 58, 62, 60, 61>>,
                  <<5, 5, 5, 5>>, <<1, 2, 3, 4>>}

\* a harness in Recording that has recorded the frames xs
Recorded(xs) ==
    [PageHarness EXCEPT !.isWarmingUp = FALSE,
                        !.results.frames = xs,
                        !.results.cpuTimes = xs]

\* the runner at the first trial of a point whose pages will report fps
StatsRunner(frames, fps) ==
    [pc |-> "stats", frames |-> frames, p95 |-> <<>>,
     fps |-> fps, run |-> 1, ok |-> <<>>, failed |-> 0,
     currentTestRuns |-> <<>>, data |-> <<>>]

InitStats ==
    /\ now = 0
    /\ stage = "stats"
    /\ sc = Scenario("none")
    /\ \/ \E xs \in FrameSamples :
              /\ h = Recorded(xs)
              /\ rn = StatsRunner(xs, <<>>)
       \/ \E fps \in FpsSamples :
              /\ h = PageHarness
              /\ rn = StatsRunner(<<>>, fps)

\* finalizeResults 242: this.calculateStatistics()
StatsCalculate ==
    /\ rn.fps = <<>>
    /\ h.statRuns = 0
    /\ h' = calculateStatistics(h)
    /\ UNCHANGED <<now, stage, sc, rn>>

\* runner.js 29-32 applied to the same samples
StatsGetP95 ==
    /\ rn.frames # <<>>
    /\ rn.p95 = <<>>
    /\ rn' = [rn EXCEPT !.p95 = <<getP95(rn.frames)>>]
    /\ UNCHANGED <<h, now, stage, sc>>

\* runner.js 99-108: the trial's promise resolved with a result
StatsTrialDelivers ==
    /\ rn.run <= Len(rn.fps)
    /\ rn' = [rn EXCEPT
                 !.currentTestRuns =
                     Append(@, runEntry([resetResults EXCEPT
                                            !.fps = <<rn.fps[rn.run], 1>>])),
                 !.ok = Append(@, TRUE),
                 !.run = @ + 1]
    /\ UNCHANGED <<h, now, stage, sc>>

\* runner.js 110-112: the trial's promise rejected
StatsTrialFails ==
    /\ rn.run <= Len(rn.fps)
    /\ rn.failed < MaxFailed
    /\ rn' = [rn EXCEPT !.ok = Append(@, FALSE),
                        !.failed = @ + 1,
                        !.run = @ + 1]
    /\ UNCHANGED <<h, now, stage, sc>>

\* runner.js 115-140, after the last trial of the point
StatsAggregate ==
    /\ rn.fps # <<>>
    /\ rn.run > Len(rn.fps)
    /\ rn.data = <<>>
    /\ rn' = [rn EXCEPT !.data = <<aggregate(apis[1], testMatrix[1],
                                             testMatrix[1].counts[1],
                                             rn.currentTestRuns)>>]
    /\ UNCHANGED <<h, now, stage, sc>>

NextStats ==
    \/ StatsCalculate
    \/ StatsGetP95
    \/ StatsTrialDelivers
    \/ StatsTrialFails
    \/ StatsAggregate

SpecStats == InitStats /\ [][NextStats]_vars

(***************************************************************************)
(* The phase of a harness, read off its three flags.                       *)
(***************************************************************************)
PhaseRank(s) ==
    IF s.isComplete THEN 3
    ELSE IF ~s.isWarmingUp THEN 2
    ELSE IF s.initialized THEN 1
    ELSE 0

NoSamples(s) ==
    /\ s.results.frames = <<>>
    /\ s.results.cpuTimes = <<>>
    /\ s.results.gpuTimes = <<>>

(***************************************************************************)
(* C1: while the harness is warming up (isWarmingUp = TRUE), frames,       *)
(* cpuTimes and gpuTimes are all empty, whatever calls were made.          *)
(***************************************************************************)
C1_NoSampleInWarmup == h.isWarmingUp => NoSamples(h)

\* warming up, timestamps supported, and an endFrame call has acted (it moved
\* lastFrameTime past the start of the warm-up)
C1_Witness ==
    /\ h.isWarmingUp
    /\ h.gpuSupportTimestamp
    /\ h.lastFrameTime > h.startTime
    /\ NoSamples(h)

(***************************************************************************)
(* C2: the phase never goes back and moves one step at a time              *)
(* (Uninitialized, Warmup, Recording, Complete); isWarmingUp never turns   *)
(* TRUE again, isComplete never turns FALSE again; and once Complete, a    *)
(* startFrame, endFrame or resolveGPUTimestamp call (any step but the      *)
(* settling of a mapAsync that was pending) leaves the results record,     *)
(* samples and statistics, as it was.                                      *)
(***************************************************************************)
C2_PhaseMonotonic ==
    [][ /\ h'.isWarmingUp => h.isWarmingUp
        /\ h.isComplete => h'.isComplete
        /\ PhaseRank(h') \in {PhaseRank(h), PhaseRank(h) + 1}
        /\ (h.isComplete /\ h'.pending = h.pending) => h'.results = h.results
        /\ h.isComplete =>
              /\ startFrame(h, now).results = h.results
              /\ endFrame(h, now).results = h.results
              /\ resolveCall(h) = h ]_vars

\* Complete, and an endFrame call came after the completing one
C2_Witness ==
    /\ h.isComplete
    /\ h.lastFrameTime > h.startTime + h.results.totalTime

(***************************************************************************)
(* C7 (as claimed): once reportError was called on a harness that is not   *)
(* Complete, no later step appends a frame or CPU sample, completes the    *)
(* harness or dispatches the completion event.                             *)
(***************************************************************************)
C7_ErroredIsTerminal ==
    [][ (h.winError # NoValue /\ ~h.isComplete) =>
            /\ h'.results.frames = h.results.frames
            /\ h'.results.cpuTimes = h.results.cpuTimes
            /\ ~h'.isComplete
            /\ h'.dispatched = h.dispatched ]_vars

(***************************************************************************)
(* C3: in a trial page the stop condition fires at most once:              *)
(* calculateStatistics has run, and 'benchmark-complete' has been          *)
(* dispatched, once if the harness is Complete and never otherwise; the    *)
(* samples the statistics were computed from are the samples of the        *)
(* result, also after later endFrame calls; window.__BENCHMARK_RESULTS__   *)
(* is set exactly when the harness is Complete.                            *)
(***************************************************************************)
C3_FinalizedOnce ==
    /\ h.statRuns = (IF h.isComplete THEN 1 ELSE 0)
    /\ h.dispatched = (IF h.isComplete THEN 1 ELSE 0)
    /\ (h.winResults # NoValue) <=> h.isComplete
    /\ h.isComplete =>
          /\ h.statInput = <<h.results.frames, h.results.cpuTimes, h.results.gpuTimes>>
          /\ h.results.meanFrameTime = mean(h.results.frames)
          /\ h.results.p95FrameTime = p95(h.results.frames)

\* Complete with a GPU sample, and the loop has called endFrame again since
C3_Witness ==
    /\ h.isComplete
    /\ h.statRuns = 1
    /\ h.dispatched = 1
    /\ Len(h.results.gpuTimes) > 0
    /\ h.lastFrameTime > h.startTime + h.results.totalTime
    /\ sc.pc = "raf"

(***************************************************************************)
(* C8 (as claimed): the iteration whose startFrame makes the Warmup ->     *)
(* Recording transition records nothing: after that startFrame, and after *)
(* the endFrame of the same iteration, frames and cpuTimes are empty.      *)
(***************************************************************************)
C8_TransitionIterationRecordsNothing ==
    (sc.transitionIter /\ sc.pc \in {"render", "await", "raf"}) =>
        /\ h.results.frames = <<>>
        /\ h.results.cpuTimes = <<>>

(***************************************************************************)
(* Positions of the sweep.                                                 *)
(***************************************************************************)
RECURSIVE CountsUpTo(_)
CountsUpTo(t) == IF t = 0 THEN 0 ELSE Len(testMatrix[t].counts) + CountsUpTo(t - 1)

NumPoints == Len(apis) * CountsUpTo(Len(testMatrix))

\* the configuration points the sweep has aggregated
PointsBefore(r) ==
    IF r.pc \in {"close", "done"} THEN NumPoints
    ELSE (r.api - 1) * CountsUpTo(Len(testMatrix)) + CountsUpTo(r.test - 1) + (r.count - 1)

\* the trials of the current configuration point that have ended
Finished(r) ==
    IF r.pc \in {"goto", "evaluate", "await", "crashed"} THEN r.run - 1
    ELSE IF r.pc = "aggregate" THEN NUM_RUNS
    ELSE 0

TrialOver(r) == r.pc \in {"goto", "aggregate", "close", "done", "crashed"}

IsFailureEntry(e) == DOMAIN e = {"api", "scenario", "count", "error"}

(***************************************************************************)
(* C4: every trial that ran its page.evaluate ends with exactly one        *)
(* outcome: the runs pushed and the failures logged for a configuration    *)
(* point add up to the trials of it that have ended; the last trial was    *)
(* pushed exactly if its promise resolved and logged as failed exactly if  *)
(* it rejected; and a promise that is still pending has its timer armed,   *)
(* so a trial that gets no signal is failed by the timeout.                *)
(***************************************************************************)
C4_ExactlyOneOutcome ==
    /\ Len(rn.currentTestRuns) + rn.failCount = Finished(rn)
    /\ (TrialOver(rn) /\ rn.promise.state # "none") =>
          /\ rn.promise.state \in {"resolved", "rejected"}
          /\ rn.lastKind = "pushed" <=> rn.promise.state = "resolved"
          /\ rn.lastKind = "failed" <=> rn.promise.state = "rejected"
    /\ (rn.pc = "await" /\ rn.promise.state = "pending") => rn.timer = "armed"

\* a point with one run pushed and one trial failed by the timeout after
\* its page had reported an error
C4_Witness ==
    /\ rn.pc = "aggregate"
    /\ Len(rn.currentTestRuns) >= 1
    /\ rn.failCount >= 1
    /\ rn.timeouts >= 1
    /\ rn.settledAt.error # NoValue

(***************************************************************************)
(* C5: a configuration point all of whose trials timed out has a report    *)
(* entry with the failure marker and no runsSuccessful; the report always  *)
(* holds one entry per point the sweep has passed, and when the sweep is   *)
(* done it holds an entry for every point and every trial was started.     *)
(***************************************************************************)
C5_TimedOutPointDoesNotHalt ==
    /\ Len(rn.data) = PointsBefore(rn)
    /\ rn.timedOutPoint > 0 =>
          /\ rn.timedOutPoint <= Len(rn.data)
          /\ IsFailureEntry(rn.data[rn.timedOutPoint])
    /\ (rn.pc = "aggregate" /\ rn.timeouts = NUM_RUNS) => rn.currentTestRuns = <<>>
    /\ rn.pc = "done" =>
          /\ Len(rn.data) = NumPoints
          /\ rn.trials = NumPoints * NUM_RUNS

\* the sweep is done, every trial of its first point timed out, and the
\* second point has an aggregate
C5_Witness ==
    /\ rn.pc = "done"
    /\ rn.timedOutPoint = 1
    /\ Len(rn.data) = NumPoints
    /\ ~IsFailureEntry(rn.data[2])

(***************************************************************************)
(* C6: a trial whose timer fired is rejected with the Timeout reason and   *)
(* logged as a failure with that reason; it adds no run, whatever samples  *)
(* its page had collected; a promise resolves only with the result of a    *)
(* harness that is Complete and has computed its statistics.               *)
(***************************************************************************)
C6_TimeoutAbandonsTrial ==
    /\ rn.timer = "fired" =>
          rn.promise = [state |-> "rejected", value |-> TimeoutReason]
    /\ (rn.timer = "fired" /\ TrialOver(rn)) =>
          /\ rn.lastKind = "failed"
          /\ rn.lastReason = TimeoutReason
    /\ Len(rn.currentTestRuns) + rn.timeouts <= Finished(rn)
    /\ rn.promise.state = "resolved" =>
          /\ rn.settledAt.complete
          /\ rn.promise.value.meanFrameTime = mean(rn.promise.value.frames)

\* the timer fired while the page was recording and had a sample, and the
\* trial is over
C6_Witness ==
    /\ rn.timer = "fired"
    /\ TrialOver(rn)
    /\ rn.settledAt.samples > 0
    /\ ~rn.settledAt.complete
    /\ rn.settledAt.error = NoValue
    /\ rn.lastReason = TimeoutReason

(***************************************************************************)
(* C9 (as claimed): when the page had reported an error of its workload    *)
(* before its harness was Complete, the promise of the trial is rejected   *)
(* with that error message, not with the Timeout reason.                   *)
(***************************************************************************)
C9_WorkloadErrorIsTheReason ==
    (rn.promise.state \in {"resolved", "rejected"}
        /\ rn.settledAt.error # NoValue /\ ~rn.settledAt.complete) =>
        rn.promise = [state |-> "rejected", value |-> rn.settledAt.error]

(***************************************************************************)
(* C10 (as claimed): no failure of a trial, a failed page.goto included,   *)
(* makes runBenchmark raise.                                               *)
(***************************************************************************)
C10_RunBenchmarkNeverRaises == rn.pc # "crashed"

(***************************************************************************)
(* The configuration points of the matrix in sweep order: api outermost,   *)
(* then scenario, then count.                                              *)
(***************************************************************************)
PointsOfTest(a, t) ==
    [k \in 1..Len(testMatrix[t].counts) |->
        [api |-> apis[a], scenario |-> testMatrix[t].scenario,
         count |-> testMatrix[t].counts[k]]]

RECURSIVE PointsOfApi(_, _)
PointsOfApi(a, t) ==
    IF t = 0 THEN <<>> ELSE PointsOfApi(a, t - 1) \o PointsOfTest(a, t)

RECURSIVE PointsUpTo(_)
PointsUpTo(a) ==
    IF a = 0 THEN <<>> ELSE PointsUpTo(a - 1) \o PointsOfApi(a, Len(testMatrix))

MatrixPoints == PointsUpTo(Len(apis))

PointOf(e) == [api |-> e.api, scenario |-> e.scenario, count |-> e.count]

(***************************************************************************)
(* C11: the report's data is at every moment a prefix of the matrix's      *)
(* points in sweep order (api outermost, then scenario, then count), no    *)
(* point is in it twice, and when the sweep has ended it holds exactly one *)
(* entry for each point, whatever the trials' outcomes were.               *)
(***************************************************************************)
C11_OneEntryPerPointInSweepOrder ==
    /\ Len(rn.data) <= Len(MatrixPoints)
    /\ \A i \in 1..Len(rn.data) : PointOf(rn.data[i]) = MatrixPoints[i]
    /\ \A i, j \in 1..Len(rn.data) :
          PointOf(rn.data[i]) = PointOf(rn.data[j]) => i = j
    /\ rn.pc = "done" => Len(rn.data) = Len(MatrixPoints)

\* a finished sweep with a mix of outcomes: the first point has an
\* aggregate of one run, the last point failed in every trial
C11_Witness ==
    /\ rn.pc = "done"
    /\ ~IsFailureEntry(rn.data[1])
    /\ rn.data[1].runsSuccessful = 1
    /\ IsFailureEntry(rn.data[Len(MatrixPoints)])

AggregateFields ==
    {"api", "scenario", "count", "runsSuccessful", "meanFps", "stdFps",
     "meanFrameTime", "stdFrameTime", "meanP95FrameTime", "meanCpuTime",
     "meanGpuTime", "meanInitTime"}

(***************************************************************************)
(* C12: a report entry is the failure entry (api, scenario, count and the  *)
(* marker, none of the derived numeric fields) exactly if no trial of its  *)
(* point delivered a result; an entry of a point with a delivered result   *)
(* has all the derived fields and no marker.                               *)
(***************************************************************************)
C12_FailureMarkerIffNoSuccess ==
    /\ Len(rn.delivered) = Len(rn.data)
    /\ \A i \in 1..Len(rn.data) :
          /\ IsFailureEntry(rn.data[i]) <=> rn.delivered[i] = 0
          /\ rn.delivered[i] > 0 => DOMAIN rn.data[i] = AggregateFields

\* a point that failed in every trial without any timeout, followed by a
\* point with a delivered result
C12_Witness ==
    /\ Len(rn.data) >= 2
    /\ IsFailureEntry(rn.data[1])
    /\ rn.timedOutPoint = 0
    /\ rn.delivered[2] >= 1
    /\ ~IsFailureEntry(rn.data[2])

ActiveTrials(r) == r.trials - (Len(r.data) * NUM_RUNS + Finished(r))

(***************************************************************************)
(* C14: trials never overlap.  In every step of the sweep at most one      *)
(* trial is started and not yet recorded; a trial other than the first is  *)
(* started only when the promise of the trial before it has settled and    *)
(* its outcome has been recorded; the sweep moves to another configuration *)
(* point only from the aggregation, when all NUM_RUNS trials of the point  *)
(* have been recorded.                                                     *)
(***************************************************************************)
C14_TrialsNeverOverlap ==
    [][ /\ ActiveTrials(rn') \in {0, 1}
        /\ (rn'.trials = rn.trials + 1 /\ rn.trials > 0) =>
              /\ ActiveTrials(rn) = 0
              /\ rn.promise.state \in {"resolved", "rejected"}
              /\ rn.lastKind \in {"pushed", "failed"}
        /\ <<rn'.api, rn'.test, rn'.count>> # <<rn.api, rn.test, rn.count>> =>
              /\ rn.pc = "aggregate"
              /\ Len(rn.currentTestRuns) + rn.failCount = NUM_RUNS ]_vars

\* the second trial of a point is waiting for its page after the first
\* one timed out
C14_Witness ==
    /\ rn.pc = "await"
    /\ rn.run = 2
    /\ rn.promise.state = "pending"
    /\ rn.timeouts = 1
    /\ ActiveTrials(rn) = 1

\* a harness as main.js constructs it: no sample, no flag
Fresh(s) ==
    /\ NoSamples(s)
    /\ s.isWarmingUp
    /\ ~s.isComplete
    /\ s.winResults = NoValue
    /\ s.winError = NoValue
    /\ s.results = resetResults

(***************************************************************************)
(* C15: each trial starts from a fresh harness and result.  The page that  *)
(* page.goto has loaded has a harness with no frame, CPU or GPU sample and *)
(* neither the completion nor the error flag, and no promise of the trial  *)
(* before is left; a promise that has resolved carries the results of the  *)
(* harness of its own page, which is Complete, and a promise rejected for  *)
(* an error carries the error flag of its own page.                        *)
(***************************************************************************)
C15_FreshHarnessPerTrial ==
    [][ /\ (rn'.trials = rn.trials + 1 /\ rn'.pc = "evaluate") =>
              /\ Fresh(h')
              /\ sc'.pc = "load"
              /\ rn'.promise = NoPromise
        /\ rn'.promise.state = "resolved" =>
              /\ h'.isComplete
              /\ rn'.promise.value = h'.results
        /\ (rn'.promise.state = "rejected" /\ rn'.promise.value # TimeoutReason) =>
              rn'.promise.value = h'.winError ]_vars

\* the first trial of the point delivered a result, so its page had set the
\* completion flag; the second trial is waiting on a page that has not
C15_Witness ==
    /\ rn.pc = "await"
    /\ rn.run = 2
    /\ Len(rn.currentTestRuns) = 1
    /\ rn.promise.state = "pending"
    /\ ~h.isComplete
    /\ h.winResults = NoValue

(***************************************************************************)
(* C16: in the frame loop the calls of startFrame and endFrame strictly    *)
(* alternate, startFrame first: while render() runs or its promise is      *)
(* outstanding the last call was startFrame, and when the next iteration   *)
(* is requested the last call was endFrame, so the endFrame of iteration N *)
(* precedes the startFrame of iteration N+1, also with an asynchronous     *)
(* render().                                                               *)
(***************************************************************************)
C16_StartEndAlternate ==
    /\ sc.alternating
    /\ sc.pc \in {"load", "init"} => sc.lastCall = NoValue
    /\ sc.pc \in {"render", "await"} => sc.lastCall = "startFrame"
    /\ sc.pc = "raf" => sc.lastCall = "endFrame"

\* a WebGPU page in a later iteration, its resolveGPUTimestamp pending
C16_Witness ==
    /\ sc.api = "webgpu"
    /\ sc.pc = "await"
    /\ h.pending = 1
    /\ Len(h.results.frames) >= 1
    /\ sc.lastCall = "startFrame"
    /\ sc.alternating

(***************************************************************************)
(* C17: the frame loop never has two timestamp cycles in flight.  At most  *)
(* one resolveGPUTimestamp is between its mapAsync and its unmap, and none *)
(* is when the loop requests the next frame, calls startFrame or enters    *)
(* render(), where beginGPUTimestamp is issued.                            *)
(***************************************************************************)
C17_OneTimestampCycleInFlight ==
    /\ h.pending <= 1
    /\ sc.pc \in {"load", "init", "render", "raf"} => h.pending = 0
    /\ h.pending = 1 => /\ sc.api = "webgpu"
                        /\ h.gpuSupportTimestamp

\* a recording WebGPU page enters render() of a later frame after the
\* resolve of the frame before has pushed its sample
C17_Witness ==
    /\ sc.api = "webgpu"
    /\ h.gpuSupportTimestamp
    /\ sc.pc = "render"
    /\ ~h.isWarmingUp
    /\ ~h.isComplete
    /\ Len(h.results.gpuTimes) >= 1
    /\ h.pending = 0

(***************************************************************************)
(* C18 (as claimed): resolveGPUTimestamp never runs concurrently with      *)
(* itself: while a call is between its mapAsync and its unmap, a second    *)
(* call does not map the result buffer.                                    *)
(***************************************************************************)
C18_ResolveWaitsForUnmap ==
    h.pending >= 1 => resolveCall(h).pending = h.pending

\* initWebGPUTimestamps found no 'timestamp-query' feature on the device
Unsupported(s) == s.device /\ ~s.gpuSupportTimestamp

(***************************************************************************)
(* C19: on a device without the timestamp-query feature the unsupported    *)
(* flag is permanent: once set it stays set in every step, and while it is *)
(* set beginGPUTimestamp and endGPUTimestamp add no command to an encoder, *)
(* resolveGPUTimestamp maps nothing and changes nothing, gpuTimes is       *)
(* empty, and a harness that is Complete has finalized its results as      *)
(* usual.                                                                  *)
(***************************************************************************)
C19_UnsupportedIsPermanent ==
    [][ /\ Unsupported(h) => Unsupported(h')
        /\ Unsupported(h') =>
              /\ beginGPUTimestamp(h', <<"pass">>) = <<"pass">>
              /\ endGPUTimestamp(h', <<"pass">>) = <<"pass">>
              /\ resolveCall(h') = h'
              /\ h'.pending = 0
              /\ h'.results.gpuTimes = <<>>
              /\ h'.isComplete =>
                    /\ h'.winResults # NoValue
                    /\ h'.dispatched = 1
                    /\ h'.results.meanFrameTime = mean(h'.results.frames) ]_vars

\* a harness on such a device that recorded frames and completed
C19_Witness ==
    /\ Unsupported(h)
    /\ h.isComplete
    /\ Len(h.results.frames) >= 2
    /\ h.results.gpuTimes = <<>>
    /\ h.winResults # NoValue

(***************************************************************************)
(* C20 (as claimed): a trial that collected no GPU sample has no GPU       *)
(* measurement rather than a GPU time of zero: the result it delivers, the *)
(* run pushed for it and the aggregate of its point do not hold the number *)
(* 0 as meanGpuTime.  (No page of the sweep modelled here collects a GPU   *)
(* sample, so this is said of every result, run and aggregate.)            *)
(***************************************************************************)
C20_AbsentGpuIsNotZero ==
    /\ (rn.promise.state = "resolved" /\ rn.promise.value.gpuTimes = <<>>) =>
          rn.promise.value.meanGpuTime # Zero
    /\ \A i \in 1..Len(rn.currentTestRuns) : rn.currentTestRuns[i].meanGpuTime # Zero
    /\ \A i \in 1..Len(rn.data) :
          ~IsFailureEntry(rn.data[i]) => rn.data[i].meanGpuTime # Zero

(***************************************************************************)
(* C21: for a configuration point with at least one successful trial,      *)
(* meanFps is the mean and stdFps the population standard deviation of     *)
(* exactly the fps values of the trials that succeeded: the divisor is the *)
(* number of successful trials, neither that number less one nor the       *)
(* number of trials, and a failed trial contributes no value.  For the fps *)
(* values 58,59,60,61,60,59,58,62,60,61 meanFps is 59.8 = 299/5 and the    *)
(* square of stdFps is 1.56 = 39/25.  (stdFps is kept as the quotient      *)
(* under the root.)                                                        *)
(***************************************************************************)
RECURSIVE Kept(_, _)
Kept(vals, ok) ==
    IF ok = <<>> THEN <<>>
    ELSE IF Head(ok) THEN <<Head(vals)>> \o Kept(Tail(vals), Tail(ok))
    ELSE Kept(Tail(vals), Tail(ok))

C21_FpsStatsOverSuccessfulTrials ==
    (stage = "stats" /\ rn.data # <<>> /\ TRUE \in {rn.ok[i] : i \in 1..Len(rn.ok)}) =>
        LET vs == Kept(rn.fps, rn.ok)
            n == Len(vs)
            agg == rn.data[1]
        IN  /\ agg.runsSuccessful = n
            /\ agg.meanFps = Q(Sum(vs), n)
            /\ agg.stdFps = Q(n * SumSq(vs) - Sum(vs) * Sum(vs), n * n)
            /\ vs = <<58, 59, 60, 61, 60, 59, 58, 62, 60, 61>> =>
                   /\ agg.meanFps = <<299, 5>>
                   /\ agg.stdFps = <<39, 25>>

\* a point aggregated after a trial failed, the fps of the others differing
C21_Witness ==
    /\ stage = "stats"
    /\ rn.data # <<>>
    /\ rn.failed > 0
    /\ Len(rn.currentTestRuns) > 1
    /\ rn.data[1].stdFps[1] > 0

(***************************************************************************)
(* C22: for every non-empty sample sequence xs, p95(xs) is the element at  *)
(* index floor(0.95 * len(xs)) of xs sorted ascending (zero-based); the    *)
(* index lies in 0..len(xs)-1; the samples are left as they were; p95 of   *)
(* the values 1..20 is 20; the p95 of calculateStatistics and the getP95   *)
(* of the runner give the same value on the same samples.                  *)
(***************************************************************************)
\* floor(0.95 * n)
FloorIndex(n) == CHOOSE k \in 0..n : 100 * k <= 95 * n /\ 95 * n < 100 * (k + 1)

\* v is the element at zero-based index idx of xs sorted ascending
IsSortedElementAt(xs, idx, v) ==
    /\ \E i \in 1..Len(xs) : xs[i] = v
    /\ Cardinality({i \in 1..Len(xs) : xs[i] < v}) <= idx
    /\ idx < Cardinality({i \in 1..Len(xs) : xs[i] <= v})

C22_P95IsSortedElementAtFloorIndex ==
    (stage = "stats" /\ rn.frames # <<>>) =>
        LET xs == rn.frames
            idx == FloorIndex(Len(xs))
            v == h.results.p95FrameTime
        IN  /\ idx \in 0..(Len(xs) - 1)
            /\ h.results.frames = xs
            /\ h.statRuns > 0 =>
                   /\ IsSortedElementAt(xs, idx, v)
                   /\ xs = [i \in 1..20 |-> i] => v = 20
            /\ rn.p95 # <<>> => IsSortedElementAt(xs, idx, rn.p95[1])
            /\ (h.statRuns > 0 /\ rn.p95 # <<>>) => rn.p95[1] = v

\* both applied to 40, 39, .. 1: the element at index 38 of 1..40 is 39
C22_Witness ==
    /\ stage = "stats"
    /\ rn.frames = [i \in 1..40 |-> 41 - i]
    /\ h.statRuns > 0
    /\ h.results.p95FrameTime = 39
    /\ rn.p95 = <<39>>

(***************************************************************************)
(* C23: for every non-empty sample sequence xs, mean(xs) = sum(xs) /       *)
(* len(xs) and stddev(xs) is the population standard deviation: its square *)
(* is the sum of the squared deviations from the mean divided by len(xs).  *)
(* The variance of a constant sequence such as 5,5,5,5 is 0 and the mean   *)
(* of 1,2,3,4 is 2.5 = 5/2.  This holds of the harness (meanFrameTime,     *)
(* stdFrameTime) and of the runner (meanFps, stdFps).                      *)
(***************************************************************************)
\* m is sum(xs) / len(xs)
IsMean(xs, m) == m[2] > 0 /\ m[1] * Len(xs) = Sum(xs) * m[2]

\* sum((x - m)^2) as a quotient, m = <<a, b>>: sum((b*x - a)^2) / b^2
RECURSIVE SqDev(_, _)
SqDev(xs, m) ==
    IF xs = <<>> THEN 0
    ELSE (m[2] * Head(xs) - m[1]) * (m[2] * Head(xs) - m[1]) + SqDev(Tail(xs), m)

\* v is sum((x - m)^2) / len(xs)
IsPopulationVariance(xs, m, v) ==
    v[2] > 0 /\ v[1] * (m[2] * m[2] * Len(xs)) = SqDev(xs, m) * v[2]

IsConstant(xs) == \A i \in 1..Len(xs) : xs[i] = xs[1]

C23_MeanAndPopulationStdDev ==
    /\ (stage = "stats" /\ rn.frames # <<>> /\ h.statRuns > 0) =>
           LET xs == rn.frames
               m == h.results.meanFrameTime
               v == h.results.stdFrameTime
           IN  /\ IsMean(xs, m)
               /\ IsPopulationVariance(xs, m, v)
               /\ IsConstant(xs) => v = Zero
               /\ xs = <<1, 2, 3, 4>> => m = <<5, 2>>
    /\ (stage = "stats" /\ rn.data # <<>> /\ rn.failed = 0) =>
           LET xs == rn.fps
               m == rn.data[1].meanFps
               v == rn.data[1].stdFps
           IN  /\ IsMean(xs, m)
               /\ IsPopulationVariance(xs, m, v)
               /\ IsConstant(xs) => v = Zero
               /\ xs = <<1, 2, 3, 4>> => m = <<5, 2>>

\* calculateStatistics applied to 1,2,3,4: mean 5/2, variance 5/4
C23_Witness ==
    /\ stage = "stats"
    /\ rn.frames = <<1, 2, 3, 4>>
    /\ h.statRuns > 0
    /\ h.results.meanFrameTime = <<5, 2>>
    /\ h.results.stdFrameTime = <<5, 4>>

(***************************************************************************)
(* C24: the CSV projection has exactly one data row per report entry, in   *)
(* report order, with a column for each scalar field of the aggregate; the *)
(* row of a point with no successful run has every statistic cell empty    *)
(* and a non-empty error cell; the row of a successful point has every     *)
(* statistic cell filled and an empty error cell.                          *)
(***************************************************************************)
StatColumns ==
    {c \in 1..Len(csvFields) : csvFields[c] \notin {"api", "scenario", "count", "error"}}

ErrorColumn == CHOOSE c \in 1..Len(csvFields) : csvFields[c] = "error"

\* the rows taken by themselves: one per entry, in order, cells filled as said
CsvRowsMatchReport ==
    /\ Len(rn.csv) = Len(rn.data) + 1
    /\ \A i \in 1..Len(rn.data) :
           LET row == rn.csv[i + 1]
               e == rn.data[i]
           IN  /\ Len(row) = Len(csvHeader)
               /\ row[1] = e.api /\ row[2] = e.scenario /\ row[3] = ToString(e.count)
               /\ IF IsFailureEntry(e)
                  THEN /\ \A c \in StatColumns : row[c] = ""
                       /\ row[ErrorColumn] # ""
                  ELSE /\ \A c \in StatColumns : row[c] # ""
                       /\ row[ErrorColumn] = ""

C24_CsvProjection ==
    rn.pc = "done" =>
        /\ CsvRowsMatchReport
        /\ \A f \in AggregateFields \cup {"error"} :
               \E c \in 1..Len(csvFields) : csvFields[c] = f

(***************************************************************************)
(* C25: for each frame recorded whose resolved GPU duration d is >= 0, d   *)
(* is appended to gpuTimes exactly once; a frame whose GPU duration is     *)
(* absent or negative appends none.  Hence at every endFrame boundary and  *)
(* at finalization len(gpuTimes) <= len(frames).                           *)
(***************************************************************************)
C25_GpuSampleOncePerFrame ==
    /\ [](stage = "page" /\ (sc.pc \in {"raf", "stopped"} \/ h.isComplete) =>
             Len(h.results.gpuTimes) <= Len(h.results.frames))
    /\ [][Len(h'.results.frames) = Len(h.results.frames) + 1 =>
             h'.results.gpuTimes =
                 IF sc'.gpuTimeMs >= 0
                 THEN Append(h.results.gpuTimes, sc'.gpuTimeMs)
                 ELSE h.results.gpuTimes]_vars

\* two frames recorded with timestamps supported: the GPU duration of the
\* earlier was negative and appended nothing, that of the later was appended
C25_Witness ==
    /\ stage = "page"
    /\ sc.pc = "raf"
    /\ h.gpuSupportTimestamp
    /\ h.warmupDuration = 0
    /\ Len(h.results.frames) = 2
    /\ sc.gpuTimeMs >= 0
    /\ h.results.gpuTimes = <<sc.gpuTimeMs>>

(***************************************************************************)
(* C26: every frame duration recorded by endFrame equals the wall-clock    *)
(* interval between that endFrame call and the endFrame call before it,    *)
(* the first sample recorded after the Warmup -> Recording transition      *)
(* included.                                                               *)
(***************************************************************************)
C26_DurationIsIntervalBetweenEndFrames ==
    [][(/\ stage = "page"
        /\ Len(h'.results.frames) = Len(h.results.frames) + 1
        /\ sc.endFrameAt # NoMark) =>
           h'.results.frames[Len(h'.results.frames)] = now' - sc.endFrameAt]_vars

(***************************************************************************)
(* C27: in 'time' mode the harness becomes Complete at the first endFrame  *)
(* in Recording at which the time since Recording was entered is greater   *)
(* than or equal to the target duration; an endFrame at which it is        *)
(* exactly the target completes the trial.  (In Recording with a frame     *)
(* recorded, lastFrameTime is the time of the last endFrame call.)         *)
(***************************************************************************)
C27_TimeModeCompletesAtTarget ==
    (/\ stage = "running"
     /\ h.durationMode = "time"
     /\ ~h.isWarmingUp
     /\ h.results.frames # <<>>
     /\ h.lastFrameTime - h.startTime >= h.targetDurationMs) => h.isComplete

(***************************************************************************)
(* C28: in 'frames' mode of the warm-up harness the count of recorded      *)
(* frames (activeFrameCount) always equals len(results.frames); the        *)
(* harness is Complete exactly from the endFrame that brings the count to  *)
(* targetFrames; the finalized result holds exactly targetFrames frame     *)
(* samples, whatever the warm-up dropped.                                  *)
(***************************************************************************)
C28_FramesModeStopsAtTargetFrames ==
    (stage \in {"new", "timing", "running"} /\ h.durationMode = "frames") =>
        /\ h.activeFrameCount = Len(h.results.frames)
        /\ Len(h.results.frames) <= h.targetFrames
        /\ h.isComplete <=> Len(h.results.frames) = h.targetFrames
        /\ h.isComplete => Len(h.statInput[1]) = h.targetFrames

\* Complete in frames mode with a non-zero warm-up, Recording entered later
\* than the warm-up allows at the earliest, the target of MaxTarget frames
\* recorded
C28_Witness ==
    /\ stage = "running"
    /\ h.durationMode = "frames"
    /\ h.warmupDuration > 0
    /\ h.targetFrames = MaxTarget
    /\ h.isComplete
    /\ h.winResults # NoValue
    /\ Len(h.results.frames) = MaxTarget
    /\ h.startTime > h.warmupDuration + 1

(***************************************************************************)
(* C29: mean, stddev and p95 are never evaluated on an empty sequence.     *)
(* The harness finalizes only from inside an endFrame that has just        *)
(* appended a frame sample, so the samples its statistics read include at  *)
(* least one frame; the CPU and GPU means are computed only when their     *)
(* sequences are non-empty (otherwise the fields keep the 0 of             *)
(* resetResults); the runner computes the means of a point only when at    *)
(* least one of its trials succeeded.                                      *)
(***************************************************************************)
NaN == <<0, 0>>

MeanFields ==
    {"meanFps", "stdFps", "meanFrameTime", "stdFrameTime", "meanP95FrameTime",
     "meanCpuTime", "meanGpuTime", "meanInitTime"}

C29_NoStatisticOfEmptySequence ==
    /\ h.statRuns > 0 =>
           /\ h.statInput[1] # <<>>
           /\ h.statInput[2] = <<>> => h.results.meanCpuTime = Zero
           /\ h.statInput[3] = <<>> => h.results.meanGpuTime = Zero
    /\ stage = "runner" =>
           \A i \in 1..Len(rn.data) :
               IF rn.delivered[i] = 0
               THEN DOMAIN rn.data[i] \cap MeanFields = {}
               ELSE /\ MeanFields \subseteq DOMAIN rn.data[i]
                    /\ rn.data[i].runsSuccessful >= 1
                    /\ \A f \in MeanFields : rn.data[i][f] # NaN

\* the sweep is over: a point none of whose trials delivered, a point that
\* was aggregated, and a page that finalized without a GPU sample
C29_Witness ==
    /\ stage = "runner"
    /\ rn.pc = "done"
    /\ \E i \in 1..Len(rn.data) : rn.delivered[i] = 0
    /\ \E i \in 1..Len(rn.data) : rn.delivered[i] > 0
    /\ h.statRuns > 0
    /\ h.statInput[3] = <<>>

(***************************************************************************)
(* C30: in every reachable state of the warm-up harness len(cpuTimes) =    *)
(* len(frames); each recorded frame appends exactly one CPU time; when the *)
(* CPU measurement fails (no start mark) the value recorded is 0, the      *)
(* frame sample is appended all the same, and the trial is not failed.     *)
(***************************************************************************)
C30_OneCpuTimePerFrame ==
    /\ [](stage \in {"new", "timing", "running"} =>
             Len(h.results.cpuTimes) = Len(h.results.frames))
    /\ [][(stage = "running" /\ h'.results.frames # h.results.frames) =>
             /\ Len(h'.results.frames) = Len(h.results.frames) + 1
             /\ h'.results.cpuTimes =
                    Append(h.results.cpuTimes,
                           IF h.cpuStartMark = NoMark THEN 0 ELSE now - h.cpuStartMark)
             /\ h'.measureThrew = (h.cpuStartMark = NoMark)
             /\ h'.winError = h.winError]_vars

\* the last endFrame found no start mark: it recorded a frame of a positive
\* duration and the CPU time 0, and no error is reported
C30_Witness ==
    /\ stage = "running"
    /\ h.measureThrew
    /\ Len(h.results.frames) = 2
    /\ h.results.frames[2] > 0
    /\ h.results.cpuTimes[2] = 0
    /\ h.winError = NoValue

(***************************************************************************)
(* C31: beginGPUTimestamp, endGPUTimestamp and resolveGPUTimestamp are     *)
(* active only in Recording: in Warmup, in Complete and after reportError  *)
(* a call of them writes no timestamp, issues no resolve/copy, maps no     *)
(* buffer (and so records no GPU sample), and resolveGPUTimestamp returns  *)
(* -1 at once.                                                             *)
(***************************************************************************)
\* calls of the three methods in the harness s do nothing
GpuCallsAreNoOps(s) ==
    /\ beginGPUTimestamp(s, <<>>) = <<>>
    /\ endGPUTimestamp(s, <<>>) = <<>>
    /\ resolveCall(s) = s

C31_GpuStepsOnlyInRecording ==
    (h.isWarmingUp \/ h.isComplete \/ h.winError # NoValue) => GpuCallsAreNoOps(h)

(***************************************************************************)
(* C32: every value in results.gpuTimes is >= 0.  A resolved timestamp     *)
(* pair whose end is before its start leaves gpuTimes unchanged, while the *)
(* frame duration and the CPU time of that frame are still recorded.       *)
(***************************************************************************)
C32_NegativeGpuDurationDiscarded ==
    /\ [](stage = "page" =>
             \A i \in 1..Len(h.results.gpuTimes) : h.results.gpuTimes[i] >= 0)
    /\ [][(/\ stage = "page"
            /\ sc.pc = "await" /\ sc'.pc = "raf"
            /\ h.pending > 0
            /\ sc'.gpuTimeMs < 0) =>
               /\ h'.results.gpuTimes = h.results.gpuTimes
               /\ Len(h'.results.frames) = Len(h.results.frames) + 1
               /\ Len(h'.results.cpuTimes) = Len(h.results.cpuTimes) + 1]_vars

\* the one frame recorded so far had its timestamps read (support, Recording)
\* and its GPU duration was negative: a frame and a CPU time, no GPU sample
C32_Witness ==
    /\ stage = "page"
    /\ sc.pc = "raf"
    /\ h.gpuSupportTimestamp
    /\ ~h.isWarmingUp
    /\ sc.gpuTimeMs < 0
    /\ Len(h.results.frames) = 1
    /\ Len(h.results.cpuTimes) = 1
    /\ h.results.gpuTimes = <<>>

(***************************************************************************)
(* C33: in a trial page startInitTimer precedes init(); endInitTimer       *)
(* (which records initTime and enters Warmup) and the first startFrame     *)
(* happen only when init() has completed successfully; if constructing the *)
(* workload or init() fails, reportError is called, the frame loop is      *)
(* never started and no sample is ever recorded for that trial.            *)
(***************************************************************************)
\* the trial failed before its loop started
FailedBeforeStart == sc.pc = "stopped" /\ ~h.initialized

C34_LoopStopsAtComplete ==
    [][(stage = "page" /\ h.isComplete) =>
          /\ ~(sc.pc = "render" /\ sc'.pc = "await")
          /\ sc'.animationFrameId => sc.animationFrameId]_vars

(***************************************************************************)
(* C35: no completion is lost between harness and runner.  Whether the     *)
(* harness finalizes before or after the runner attaches its               *)
(* 'benchmark-complete' listener, a trial whose harness reached Complete   *)
(* without an error flag delivers its finalized result to the runner and   *)
(* is counted as successful, not as a timeout (unless the timer had fired  *)
(* before the harness was Complete).                                       *)
(***************************************************************************)
CompleteNoError(s) == s.isComplete /\ s.winError = NoValue

C35_NoCompletionLost ==
    stage = "runner" =>
        \* finalized before the listener is attached: the executor resolves
        /\ (rn.pc = "evaluate" /\ CompleteNoError(h)) =>
               executor(rn, h).promise = [state |-> "resolved", value |-> h.results]
        \* finalized while the promise is awaited: it is not left pending
        /\ (rn.pc = "await" /\ CompleteNoError(h)) =>
               \/ rn.promise = [state |-> "resolved", value |-> h.results]
               \/ /\ rn.promise = [state |-> "rejected", value |-> TimeoutReason]
                  /\ ~rn.settledAt.complete
        \* a promise settled on a Complete page without error was resolved,
        \* and the trial is counted with the successful ones
        /\ (rn.promise.state \in {"resolved", "rejected"}
               /\ rn.settledAt.complete /\ rn.settledAt.error = NoValue) =>
               /\ rn.promise.state = "resolved"
               /\ rn.timer = "cleared"
               /\ TrialOver(rn) => rn.lastKind = "pushed"

\* the harness finalized and dispatched its event before the runner's
\* page.evaluate attached the listener
C35_Witness ==
    /\ stage = "runner"
    /\ rn.pc = "evaluate"
    /\ ~rn.listener
    /\ CompleteNoError(h)
    /\ h.dispatched = 1
    /\ h.winResults # NoValue

\* runner.js 66-154, 170-173: the sweep ends: eventually runBenchmark has
\* returned after the save step, or has rejected into the catch of its call,
\* which exits the process
SweepEnds == <>(rn.pc \in {"done", "crashed"})

\* C36: the sweep terminates at the save step: eventually runBenchmark has
\* written the report, and that report has an entry for every configuration
\* point of the matrix.
C36_SweepReachesSave ==
    <>(rn.pc = "done" /\ Len(rn.data) = NumPoints /\ Len(rn.csv) = NumPoints + 1)


\* C37: once endInitTimer has run, with the clock advancing from iteration to
\* iteration and the loop calling startFrame and endFrame, the harness leaves
\* the warm-up and later is Complete with its results published and the
\* completion signal dispatched, in either duration mode, unless the workload
\* raised and stopped the loop.
C37_EventuallyComplete ==
    \/ <>(sc.pc = "stopped")
    \/ /\ <>(h.initialized /\ ~h.isWarmingUp /\ ~h.isComplete)
       /\ <>(h.isComplete /\ h.winResults # NoValue /\ h.dispatched = 1)

\* a harness in 'time' mode that was warming up at clock 2 is Complete
C37_Witness ==
    /\ stage = "loop"
    /\ h.durationMode = "time"
    /\ h.warmupDuration = MaxWarmup
    /\ h.isComplete
    /\ h.winResults # NoValue
    /\ h.dispatched = 1
    /\ now < MaxClock


\* part_007 110-113: fps of the frame-count harness,
\* (frames.length / totalTime) * 1000, as a quotient
fpsOfTotal(r) == Q(1000 * Len(r.frames), r.totalTime)

\* part_006 227: fps of the warm-up harness, 1000 / meanFrameTime, as a
\* quotient, from the mean it stored
fpsOfMean(r) == Q(1000 * r.meanFrameTime[2], r.meanFrameTime[1])

\* C38: while the warm-up harness records, its frame durations add up to the
\* time from Recording entry to the last endFrame; once it is finalized they
\* add up to results.totalTime, and the reported fps, 1000 / meanFrameTime, is
\* the quotient 1000 * len(frames) / totalTime of the frame-count harness.
C38_FramesSumToTotalTime ==
    /\ (h.initialized /\ ~h.isWarmingUp /\ ~h.isComplete) =>
           Sum(h.results.frames) = h.lastFrameTime - h.startTime
    /\ h.isComplete =>
           /\ Len(h.results.frames) > 0
           /\ Sum(h.results.frames) = h.results.totalTime
           /\ h.results.fps = fpsOfMean(h.results)
           /\ h.results.fps = fpsOfTotal(h.results)

\* a harness finalized after a warm-up, with two frames of different length
C38_Witness ==
    /\ stage = "running"
    /\ h.isComplete
    /\ h.startTime > 0
    /\ Len(h.results.frames) = 2
    /\ h.results.frames[1] # h.results.frames[2]
    /\ h.results.totalTime = 3
    /\ h.results.fps = <<2000, 3>>


\* the command cmd was recorded in the command encoder
Encoded(commandEncoder, cmd) ==
    \E i \in 1..Len(commandEncoder) : commandEncoder[i] = cmd

\* part_006 93-103: what an active beginGPUTimestamp and an active
\* endGPUTimestamp leave in the encoder of the frame
BeginWritten(c) == Encoded(c.commandEncoder, "writeTimestamp 0")
EndWritten(c) ==
    /\ Encoded(c.commandEncoder, "writeTimestamp 1")
    /\ Encoded(c.commandEncoder, "resolveQuerySet")
    /\ Encoded(c.commandEncoder, "copyBufferToBuffer")

\* C39: in every iteration of the page's loop the three GPU-timestamp steps
\* of render() agree: the begin marker is written iff the end marker is
\* written, resolved and copied iff resolveGPUTimestamp maps the result
\* buffer; and whenever a mapping is pending, the frame's encoder holds both
\* markers.
C39_GpuStepsAgree ==
    /\ [](stage = "page" =>
             /\ BeginWritten(sc) <=> EndWritten(sc)
             /\ h.pending > 0 => (BeginWritten(sc) /\ EndWritten(sc)))
    /\ [][(stage = "page" /\ sc.pc = "render" /\ sc'.pc = "await") =>
             /\ BeginWritten(sc') <=> EndWritten(sc')
             /\ EndWritten(sc') <=> (h'.pending = h.pending + 1)
             /\ ~EndWritten(sc') <=> (h' = h)]_vars

\* a Recording frame of a WebGPU scenario with timestamp support: the
\* markers are in the submitted encoder and the result buffer is being mapped
C39_Witness ==
    /\ stage = "page"
    /\ sc.pc = "await"
    /\ sc.api = "webgpu"
    /\ ~h.isWarmingUp
    /\ ~h.isComplete
    /\ h.pending = 1
    /\ sc.commandEncoder = <<"writeTimestamp 0", "pass", "writeTimestamp 1",
                             "resolveQuerySet", "copyBufferToBuffer">>


(***************************************************************************)
(* SpecFrameCount: the frame-count harness (no warm-up phase), its methods *)
(* called in any order after endInitTimer, the clock advancing between     *)
(* calls.  The harness is the record h; stage is the position in the       *)
(* set-up sequence: "fc-new", "fc-timing", "fc-running".                   *)
(***************************************************************************)
\* part_007 2-35: the constructor; the three settings are its constants
fcConstructor(mode, targetMs, frames) ==
    [results |-> [frames |-> <<>>, totalTime |-> 0, fps |-> Zero,
                  initTime |-> 0, gpuTimes |-> <<>>],
     initialized |-> FALSE,
     initStartTime |-> 0,
     startTime |-> 0,
     lastFrameTime |-> 0,
     frameCount |-> 0,
     durationMode |-> mode,
     targetDurationMs |-> targetMs,
     targetFrames |-> frames,
     isComplete |-> FALSE,
     \* the page's window: the two globals and the dispatched events
     winResults |-> NoValue,
     winError |-> NoValue,
     dispatched |-> 0]

\* part_007 37-39
fcStartInitTimer(s, t) == [s EXCEPT !.initStartTime = t]

\* part_007 41-47
fcEndInitTimer(s, t) ==
    [s EXCEPT !.results.initTime = t - s.initStartTime,
              !.initialized = TRUE]

\* part_007 49-55
fcStartFrame(s, t) ==
    IF s.isComplete THEN s
    ELSE IF s.frameCount = 0
    THEN [s EXCEPT !.startTime = t, !.lastFrameTime = t]
    ELSE s

\* part_007 110-123
fcFinalizeResults(s, t) ==
    LET r == [s.results EXCEPT !.totalTime = t - s.startTime]
    IN  [s EXCEPT !.results = [r EXCEPT !.fps = fpsOfTotal(r)],
                  !.winResults = "results",
                  !.dispatched = @ + 1]

\* part_007 91-108
fcCheckCompletion(s, t) ==
    LET complete ==
            IF s.durationMode = "time"
            THEN (t - s.startTime) > s.targetDurationMs
            ELSE IF s.durationMode = "frames"
            THEN s.frameCount >= s.targetFrames
            ELSE FALSE
    IN  IF complete
        THEN fcFinalizeResults([s EXCEPT !.isComplete = TRUE], t)
        ELSE s

\* endFrame recording the first frame like every other
fcEndFrame_recordsFirst(s, t, gpuMs) ==
    IF s.isComplete THEN s
    ELSE fcCheckCompletion(
             [s EXCEPT !.results.frames = Append(@, t - s.lastFrameTime),
                       !.results.gpuTimes =
                           IF gpuMs >= 0 THEN Append(@, gpuMs) ELSE @,
                       !.lastFrameTime = t,
                       !.frameCount = @ + 1], t)

\* part_007 57-89
fcEndFrame(s, t, gpuMs) ==
    IF s.isComplete THEN s
    ELSE LET duration == t - s.lastFrameTime
         IN  fcCheckCompletion(
                 [s EXCEPT !.results.frames =
                               IF s.frameCount > 0 THEN Append(@, duration) ELSE @,
                           !.results.gpuTimes =
                               IF s.frameCount > 0 /\ gpuMs >= 0
                               THEN Append(@, gpuMs) ELSE @,
                           !.lastFrameTime = t,
                           !.frameCount = @ + 1], t)

\* part_007 125-130
fcReportError(s, message) == [s EXCEPT !.winError = message]

\* a harness in either mode with the target that mode reads
InitFrameCount ==
    /\ \/ \E d \in 1..MaxTarget : h = fcConstructor("time", d, MaxTarget)
       \/ \E f \in 1..MaxTarget + 1 : h = fcConstructor("frames", MaxTarget, f)
    /\ now = 0
    /\ stage = "fc-new"
    /\ sc = Scenario("none")
    /\ rn = NoRunner

FcTick ==
    /\ stage # "fc-new"
    /\ now < MaxTime
    /\ now' = now + 1
    /\ UNCHANGED <<h, stage, sc, rn>>

FcStartInitTimer ==
    /\ stage = "fc-new"
    /\ h' = fcStartInitTimer(h, now)
    /\ stage' = "fc-timing"
    /\ UNCHANGED <<now, sc, rn>>

FcEndInitTimer ==
    /\ stage = "fc-timing"
    /\ h' = fcEndInitTimer(h, now)
    /\ stage' = "fc-running"
    /\ UNCHANGED <<now, sc, rn>>

FcStartFrame ==
    /\ stage = "fc-running"
    /\ h' = fcStartFrame(h, now)
    /\ UNCHANGED <<now, stage, sc, rn>>

\* endFrame is passed no GPU time (-1) or one
FcEndFrame ==
    /\ stage = "fc-running"
    /\ \E g \in {-1, 0, 1} : h' = fcEndFrame(h, now, g)
    /\ Len(h'.results.frames) <= MaxFrames
    /\ UNCHANGED <<now, stage, sc, rn>>

FcReportError ==
    /\ h.winError = NoValue
    /\ \E m \in Messages : h' = fcReportError(h, m)
    /\ UNCHANGED <<now, stage, sc, rn>>

NextFrameCount ==
    \/ FcTick
    \/ FcStartInitTimer
    \/ FcEndInitTimer
    \/ FcStartFrame
    \/ FcEndFrame
    \/ FcReportError

SpecFrameCount == InitFrameCount /\ [][NextFrameCount]_vars

\* C40: in the frame-count harness the first endFrame records no frame and
\* no GPU sample; from then on there is one frame sample less than endFrame
\* calls counted, and never more GPU samples than frame samples; so a harness
\* in 'frames' mode is finalized at frameCount = targetFrames with exactly
\* targetFrames - 1 frame samples.
C40_FirstFrameDropped ==
    /\ h.frameCount <= 1 =>
           (h.results.frames = <<>> /\ h.results.gpuTimes = <<>>)
    /\ h.frameCount >= 1 => Len(h.results.frames) = h.frameCount - 1
    /\ Len(h.results.gpuTimes) <= Len(h.results.frames)
    /\ (h.isComplete /\ h.durationMode = "frames") =>
           /\ h.frameCount = h.targetFrames
           /\ Len(h.results.frames) = h.targetFrames - 1
           /\ h.winResults # NoValue

\* a harness in 'frames' mode, finalized after MaxTarget + 1 endFrame calls
\* that each passed a GPU time
C40_Witness ==
    /\ stage = "fc-running"
    /\ h.durationMode = "frames"
    /\ h.targetFrames = MaxTarget + 1
    /\ h.isComplete
    /\ Len(h.results.frames) = MaxTarget
    /\ Len(h.results.gpuTimes) = MaxTarget
    /\ h.results.totalTime > 0


====
